---- MODULE Spec2Model ----
(***************************************************************************)
(* News Agent backend: request orchestration, TTL cache, session store.    *)
(*                                                                         *)
(* Two programs are modelled:                                              *)
(*   - news_agent_python.py : NewsAgentAPI (providers + cache), NewsAgent  *)
(*     (orchestrator), get_user_session and the Flask routes;              *)
(*   - news_agent_simple.py : the dictionary-based routes.                 *)
(*                                                                         *)
(* Program strings that the code searches, lower-cases or concatenates are *)
(* sequences of one-character strings; opaque strings (templates, titles,  *)
(* roles) are TLA+ strings.                                                *)
(***************************************************************************)
EXTENDS Integers, Sequences, FiniteSets, TLC

(***************************************************************************)
(* String literals of the two programs.                                    *)
(***************************************************************************)
s_latest_headlines == <<"l", "a", "t", "e", "s", "t", " ", "h", "e", "a", "d", "l", "i", "n", "e", "s">>
s_top_news == <<"t", "o", "p", " ", "n", "e", "w", "s">>
s_breaking_news == <<"b", "r", "e", "a", "k", "i", "n", "g", " ", "n", "e", "w", "s">>
s_wall_street_journal == <<"w", "a", "l", "l", " ", "s", "t", "r", "e", "e", "t", " ", "j", "o", "u", "r", "n", "a", "l">>
s_new_york_times == <<"n", "e", "w", " ", "y", "o", "r", "k", " ", "t", "i", "m", "e", "s">>
s_washington_post == <<"w", "a", "s", "h", "i", "n", "g", "t", "o", "n", " ", "p", "o", "s", "t">>
s_cnn == <<"c", "n", "n">>
s_bbc == <<"b", "b", "c">>
s_fox_news == <<"f", "o", "x", " ", "n", "e", "w", "s">>
s_politics == <<"p", "o", "l", "i", "t", "i", "c", "s">>
s_business == <<"b", "u", "s", "i", "n", "e", "s", "s">>
s_technology == <<"t", "e", "c", "h", "n", "o", "l", "o", "g", "y">>
s_health == <<"h", "e", "a", "l", "t", "h">>
s_science == <<"s", "c", "i", "e", "n", "c", "e">>
s_sports == <<"s", "p", "o", "r", "t", "s">>
s_entertainment == <<"e", "n", "t", "e", "r", "t", "a", "i", "n", "m", "e", "n", "t">>
s_ukraine == <<"u", "k", "r", "a", "i", "n", "e">>
s_election == <<"e", "l", "e", "c", "t", "i", "o", "n">>
s_covid == <<"c", "o", "v", "i", "d">>
s_climate == <<"c", "l", "i", "m", "a", "t", "e">>
s_preferences == <<"p", "r", "e", "f", "e", "r", "e", "n", "c", "e", "s">>
s_settings == <<"s", "e", "t", "t", "i", "n", "g", "s">>
s_configure == <<"c", "o", "n", "f", "i", "g", "u", "r", "e">>
s_global == <<"g", "l", "o", "b", "a", "l">>
s_us == <<"u", "s">>
s_uk == <<"u", "k">>
s_nyt == <<"n", "y", "t">>
s_the_guardian == <<"t", "h", "e", " ", "g", "u", "a", "r", "d", "i", "a", "n">>
s_guardian == <<"g", "u", "a", "r", "d", "i", "a", "n">>
s_headlines == <<"h", "e", "a", "d", "l", "i", "n", "e", "s">>
s_news == <<"n", "e", "w", "s">>
s_today == <<"t", "o", "d", "a", "y">>
s_about == <<"a", "b", "o", "u", "t">>
s_regarding == <<"r", "e", "g", "a", "r", "d", "i", "n", "g">>
s_on == <<"o", "n">>
s_ny_times == <<"n", "y", " ", "t", "i", "m", "e", "s">>
s_related_to == <<"r", "e", "l", "a", "t", "e", "d", " ", "t", "o">>

(***************************************************************************)
(* str.lower(), the `in` substring test, str.split().                      *)
(***************************************************************************)
UpperChars == <<"A", "B", "C", "D", "E", "F", "G", "H", "I", "J", "K", "L", "M",
                "N", "O", "P", "Q", "R", "S", "T", "U", "V", "W", "X", "Y", "Z">>

LowerChars == <<"a", "b", "c", "d", "e", "f", "g", "h", "i", "j", "k", "l", "m",
                "n", "o", "p", "q", "r", "s", "t", "u", "v", "w", "x", "y", "z">>

LowerChar(c) ==
    IF \E i \in 1..Len(UpperChars) : UpperChars[i] = c
    THEN LowerChars[CHOOSE i \in 1..Len(UpperChars) : UpperChars[i] = c]
    ELSE c

Lower(s) == [i \in 1..Len(s) |-> LowerChar(s[i])]

Contains(s, p) ==
    \E i \in 0..(Len(s) - Len(p)) : SubSeq(s, i + 1, i + Len(p)) = p

None == "None"

(***************************************************************************)
(* NewsAgent.detect_intent: ordered rule tables, first match wins.         *)
(***************************************************************************)
headline_phrases == <<s_latest_headlines, s_top_news, s_breaking_news>>

publications == <<s_wall_street_journal, s_new_york_times, s_washington_post,
                  s_cnn, s_bbc, s_fox_news>>

topics == <<s_politics, s_business, s_technology, s_health, s_science,
            s_sports, s_entertainment>>

specific_keywords == <<s_ukraine, s_election, s_covid, s_climate>>

preference_words == <<s_preferences, s_settings, s_configure>>

AnyIn(list, s) == \E i \in 1..Len(list) : Contains(s, list[i])

FirstIn(list, s) == list[CHOOSE i \in 1..Len(list) :
                            /\ Contains(s, list[i])
                            /\ \A j \in 1..(i - 1) : ~Contains(s, list[j])]

Intent(type, name) == [type |-> type, name |-> name]

\* Faulty variants of detect_intent.
\* The preference keywords are not tested.
detect_intent_DropsPreferences(user_input) ==
    LET input_lower == Lower(user_input) IN
    IF AnyIn(headline_phrases, input_lower)
    THEN Intent("fetch_headlines", <<>>)
    ELSE IF AnyIn(publications, input_lower)
    THEN Intent("fetch_specific_publication", FirstIn(publications, input_lower))
    ELSE IF AnyIn(topics, input_lower)
    THEN Intent("fetch_topic", FirstIn(topics, input_lower))
    ELSE IF AnyIn(specific_keywords, input_lower)
    THEN Intent("fetch_topic", FirstIn(specific_keywords, input_lower))
    ELSE Intent("discussion", <<>>)

\* The headline phrases are searched in the text as given, not lower-cased.
detect_intent_CaseSensitive(user_input) ==
    LET input_lower == Lower(user_input) IN
    IF AnyIn(headline_phrases, user_input)
    THEN Intent("fetch_headlines", <<>>)
    ELSE IF AnyIn(publications, input_lower)
    THEN Intent("fetch_specific_publication", FirstIn(publications, input_lower))
    ELSE IF AnyIn(topics, input_lower)
    THEN Intent("fetch_topic", FirstIn(topics, input_lower))
    ELSE IF AnyIn(specific_keywords, input_lower)
    THEN Intent("fetch_topic", FirstIn(specific_keywords, input_lower))
    ELSE IF AnyIn(preference_words, input_lower)
    THEN Intent("update_preferences", <<>>)
    ELSE Intent("discussion", <<>>)

\* The topics are tested before the publications.
detect_intent_TopicFirst(user_input) ==
    LET input_lower == Lower(user_input) IN
    IF AnyIn(headline_phrases, input_lower)
    THEN Intent("fetch_headlines", <<>>)
    ELSE IF AnyIn(topics, input_lower)
    THEN Intent("fetch_topic", FirstIn(topics, input_lower))
    ELSE IF AnyIn(publications, input_lower)
    THEN Intent("fetch_specific_publication", FirstIn(publications, input_lower))
    ELSE IF AnyIn(specific_keywords, input_lower)
    THEN Intent("fetch_topic", FirstIn(specific_keywords, input_lower))
    ELSE IF AnyIn(preference_words, input_lower)
    THEN Intent("update_preferences", <<>>)
    ELSE Intent("discussion", <<>>)

\* The event keywords are tested before the generic categories.
detect_intent_EventsFirst(user_input) ==
    LET input_lower == Lower(user_input) IN
    IF AnyIn(headline_phrases, input_lower)
    THEN Intent("fetch_headlines", <<>>)
    ELSE IF AnyIn(publications, input_lower)
    THEN Intent("fetch_specific_publication", FirstIn(publications, input_lower))
    ELSE IF AnyIn(specific_keywords, input_lower)
    THEN Intent("fetch_topic", FirstIn(specific_keywords, input_lower))
    ELSE IF AnyIn(topics, input_lower)
    THEN Intent("fetch_topic", FirstIn(topics, input_lower))
    ELSE IF AnyIn(preference_words, input_lower)
    THEN Intent("update_preferences", <<>>)
    ELSE Intent("discussion", <<>>)

detect_intent(user_input) ==
    LET input_lower == Lower(user_input) IN
    IF AnyIn(headline_phrases, input_lower)
    THEN Intent("fetch_headlines", <<>>)
    ELSE IF AnyIn(publications, input_lower)
    THEN Intent("fetch_specific_publication", FirstIn(publications, input_lower))
    ELSE IF AnyIn(topics, input_lower)
    THEN Intent("fetch_topic", FirstIn(topics, input_lower))
    ELSE IF AnyIn(specific_keywords, input_lower)
    THEN Intent("fetch_topic", FirstIn(specific_keywords, input_lower))
    ELSE IF AnyIn(preference_words, input_lower)
    THEN Intent("update_preferences", <<>>)
    ELSE Intent("discussion", <<>>)

(***************************************************************************)
(* Bounds of the model.                                                    *)
(***************************************************************************)
MaxReq == 2          \* requests received, concurrent specification

MaxSerial == 3       \* requests received, serial specification

MaxCalls == 2        \* requests received, cache specification

MaxTicks == 1        \* clock advances

MaxSimpleOps == 3    \* requests served by the simple variant

MaxWords == 3        \* words of a text given to detect_intent

MaxDialog == 2       \* requests of a dialogue

Users == {<<"a">>, <<"b">>}

(***************************************************************************)
(* State.                                                                  *)
(***************************************************************************)
VARIABLES
    clock,            \* time.time(), in seconds
    ticks,            \* number of clock advances taken so far
    keys,             \* which of NEWS_API_KEY, NYT_API_KEY, GUARDIAN_API_KEY are set
    user_sessions,    \* python variant: user id -> NewsAgent object (0: not in the dict)
    agents,           \* the NewsAgent objects created so far, in creation order
    req,              \* the requests received so far, in arrival order
    simple_sessions,  \* simple variant: the user_sessions dict, user id -> session dict
    simple_out,       \* simple variant: the last response sent
    simple_ops        \* simple variant: number of requests served so far

py_vars == <<clock, ticks, keys, user_sessions, agents, req>>

simple_vars == <<simple_sessions, simple_out, simple_ops>>

vars == <<clock, ticks, keys, user_sessions, agents, req, simple_sessions, simple_out, simple_ops>>

(***************************************************************************)
(* NewsAgentAPI.__init__ and NewsAgent.__init__.                           *)
(***************************************************************************)
cache_duration == 30 * 60

EmptyCache == [headlines |-> <<>>, topics |-> <<>>, publications |-> <<>>]

DefaultPreferences ==
    [favorite_topics |-> <<>>, favorite_publications |-> <<>>,
     update_frequency |-> "daily", region |-> s_global]

NewsAgentInit ==
    [user_preferences |-> DefaultPreferences,
     conversation_history |-> <<>>,
     cache |-> EmptyCache]

\* dict.update(other)
DictUpdate(d, other) ==
    [k \in (DOMAIN d) \cup (DOMAIN other) |->
        IF k \in DOMAIN other THEN other[k] ELSE d[k]]

\* dict.get(k, default)
DictGet(d, k, default) == IF k \in DOMAIN d THEN d[k] ELSE default

\* d[k] = v
DictSet(d, k, v) ==
    [x \in (DOMAIN d) \cup {k} |-> IF x = k THEN v ELSE d[x]]

(***************************************************************************)
(* Articles, replies, conversation turns.                                  *)
(***************************************************************************)
Article(title) == [title |-> title]

Reply(tmpl, args, lines) == [tmpl |-> tmpl, args |-> args, lines |-> lines]

\* {"role": ..., "content": ...}; by is the request that appended the turn
\* (history only, not program state)
Turn(role, content, by) == [role |-> role, content |-> content, by |-> by]

UserContent(text) == Reply("{0}", <<text>>, <<>>)

\* [a.get('title') for a in articles[:5] if a.get('title')]
RECURSIVE TitlesOf(_)
TitlesOf(articles) ==
    IF articles = <<>> THEN <<>>
    ELSE IF Head(articles).title # None
         THEN <<Head(articles).title>> \o TitlesOf(Tail(articles))
         ELSE TitlesOf(Tail(articles))

\* Faulty variant of FirstFive: the slice is missing.
FirstFiveTakesAll(articles) == articles

FirstFive(articles) == SubSeq(articles, 1, IF Len(articles) < 5 THEN Len(articles) ELSE 5)

article_titles(articles) == TitlesOf(FirstFive(articles))

(***************************************************************************)
(* NewsAgentAPI: cache keys, liveness of an entry, provider selection.     *)
(***************************************************************************)
\* f"{country}-{category}"
\* Faulty variant of headlines_cache_key: the parameters are lower-cased.
headlines_cache_key_Lowered(country, category) ==
    Lower(country) \o <<"-">> \o Lower(category)

headlines_cache_key(country, category) == country \o <<"-">> \o category

CacheEntry(timestamp, data) == [timestamp |-> timestamp, data |-> data]

\* Faulty variant of IsLive: an entry aged exactly cache_duration is still live.
IsLiveInclusive(c, cache_key, now) ==
    /\ cache_key \in DOMAIN c
    /\ now - c[cache_key].timestamp <= cache_duration

\* cache_key in cache and now - cache[cache_key]['timestamp'] < self.cache_duration
IsLive(c, cache_key, now) ==
    /\ cache_key \in DOMAIN c
    /\ now - c[cache_key].timestamp < cache_duration

\* The provider a miss goes to; "none": no usable key, the call answers []
headlines_provider(k) ==
    IF k.news THEN "newsapi" ELSE IF k.nyt THEN "nyt" ELSE "none"

topic_provider(k) ==
    IF k.news THEN "newsapi" ELSE IF k.nyt THEN "nyt" ELSE "none"

\* Faulty variant of publication_provider: the Guardian has no path of its
\* own and is searched by source.
publication_provider_NoGuardianPath(k, pub_lower) ==
    IF pub_lower \in {s_new_york_times, s_nyt}
    THEN IF k.nyt THEN "nyt" ELSE "none"
    ELSE IF k.news THEN "newsapi" ELSE "none"

publication_provider(k, pub_lower) ==
    IF pub_lower \in {s_new_york_times, s_nyt}
    THEN IF k.nyt THEN "nyt" ELSE "none"
    ELSE IF pub_lower \in {s_the_guardian, s_guardian}
    THEN IF k.guardian THEN "guardian" ELSE "none"
    ELSE IF k.news THEN "newsapi" ELSE "none"

ProviderFor(k, kind, cache_key) ==
    CASE kind = "headlines" -> headlines_provider(k)
      [] kind = "topics" -> topic_provider(k)
      [] kind = "publications" -> publication_provider(k, cache_key)

\* With no usable key get_top_headlines and get_news_by_topic return [] before
\* the cache update; get_from_publication stores the [] of its helper.
StoresEmptyWithoutProvider(kind) == kind = "publications"

(***************************************************************************)
(* NewsAgent: the replies of the handlers.                                 *)
(***************************************************************************)
Ok(data) == [status |-> "ok", data |-> data]

Error == [status |-> "error", data |-> <<>>]

NoResult == [status |-> "none", data |-> <<>>]

\* the except branches of handle_headlines_request, handle_publication_request
\* and handle_topic_request
fetch_error_reply(intent) ==
    CASE intent.type = "fetch_headlines" ->
            Reply("I'm sorry, I couldn't fetch the latest headlines right now. Please try again later.",
                  <<>>, <<>>)
      [] intent.type = "fetch_specific_publication" ->
            Reply("I'm sorry, I couldn't fetch articles from {0} right now. Please try again later.",
                  <<intent.name>>, <<>>)
      [] intent.type = "fetch_topic" ->
            Reply("I'm sorry, I couldn't fetch articles about {0} right now. Please try again later.",
                  <<intent.name>>, <<>>)

handle_headlines_request(intent, result) ==
    IF result.status = "error" THEN fetch_error_reply(intent)
    ELSE IF article_titles(result.data) # <<>>
    THEN Reply("Here are today's top headlines:", <<>>, article_titles(result.data))
    ELSE Reply("I'm sorry, I couldn't find any headlines at the moment. Please try again later.",
               <<>>, <<>>)

handle_publication_request(intent, result) ==
    IF result.status = "error" THEN fetch_error_reply(intent)
    ELSE IF article_titles(result.data) # <<>>
    THEN Reply("Here are the latest articles from {0}:", <<intent.name>>,
               article_titles(result.data))
    ELSE Reply("I'm sorry, I couldn't find any recent articles from {0}. Please try another publication or try again later.",
               <<intent.name>>, <<>>)

handle_topic_request(intent, result) ==
    IF result.status = "error" THEN fetch_error_reply(intent)
    ELSE IF article_titles(result.data) # <<>>
    THEN Reply("Here are the latest articles about {0}:", <<intent.name>>,
               article_titles(result.data))
    ELSE Reply("I'm sorry, I couldn't find any recent articles about {0}. Please try another topic or try again later.",
               <<intent.name>>, <<>>)

\* NewsAgent.initialize: the welcome message
welcome_message(result) ==
    IF result.status = "error"
    THEN Reply("Welcome to your News Agent! I'm ready to help you find and discuss the latest news.",
               <<>>, <<>>)
    ELSE Reply("Welcome to your News Agent! Here are today's top headlines:", <<>>,
               article_titles(result.data))

\* NewsAgent.discuss_news: the generated text, or the stock sentence when the
\* generation fails
discuss_news(generated) ==
    IF generated
    THEN Reply("<generated>", <<>>, <<>>)
    ELSE Reply("I'd be happy to discuss this topic. Based on recent news, there have been several developments in this area. What specific aspect would you like to know more about?",
               <<>>, <<>>)

\* ', '.join(list) keeps the list; the summary keeps label and items
SummaryLines(preferences) ==
    (IF "favorite_topics" \in DOMAIN preferences /\ preferences["favorite_topics"] # <<>>
     THEN <<"favorite topics: ">> \o preferences["favorite_topics"] ELSE <<>>)
    \o
    (IF "favorite_publications" \in DOMAIN preferences
        /\ preferences["favorite_publications"] # <<>>
     THEN <<"favorite publications: ">> \o preferences["favorite_publications"] ELSE <<>>)
    \o
    (IF "update_frequency" \in DOMAIN preferences
     THEN <<"update frequency: ", preferences["update_frequency"]>> ELSE <<>>)

\* the message of NewsAgent.update_user_preferences
preferences_message(preferences) ==
    IF SummaryLines(preferences) # <<>> \/ "region" \in DOMAIN preferences
    THEN Reply("Your news preferences have been updated. I'll focus on {summary}.",
               IF "region" \in DOMAIN preferences THEN <<preferences["region"]>> ELSE <<>>,
               SummaryLines(preferences))
    ELSE Reply("Your news preferences have been updated.", <<>>, <<>>)

\* the methods of NewsAgentAPI called on the object itself: they return the
\* articles, no reply is composed
ApiCalls == {"get_top_headlines", "get_from_publication", "get_news_by_topic"}

\* the body of the route /api/publication/<publication>
publication_response(publication, result) ==
    IF result.status = "error"
    THEN Reply("Failed to fetch from {0}", <<publication>>, <<>>)
    ELSE Reply("articles", <<>>, TitlesOf(result.data))

\* the handler's reply to the outcome of the aggregator call
ComposeFetch(op, intent, result) ==
    IF op = "initialize" THEN welcome_message(result)
    ELSE IF op = "publication" THEN publication_response(intent.name, result)
    ELSE IF op \in ApiCalls THEN Reply("", <<>>, <<>>)
    ELSE CASE intent.type = "fetch_headlines" -> handle_headlines_request(intent, result)
           [] intent.type = "fetch_specific_publication" ->
                 handle_publication_request(intent, result)
           [] intent.type = "fetch_topic" -> handle_topic_request(intent, result)

\* Faulty variant of RegionCountry: the region preference is not read.
RegionCountryIgnoresRegion(user_preferences) == s_us

\* the country asked for: the region preference, 'global' mapped to 'us'
RegionCountry(user_preferences) ==
    LET region == DictGet(user_preferences, "region", s_us) IN
    IF region = s_global THEN s_us ELSE region

(***************************************************************************)
(* Requests of the python variant. A request is one route call, executed   *)
(* by its own thread; pc is the statement it is to execute next.           *)
(***************************************************************************)
NoEntry == [present |-> FALSE, timestamp |-> 0, data |-> <<>>]

NoReply == Reply("", <<>>, <<>>)

NewRequest(op, user, text, preferences) ==
    [op |-> op, user |-> user, text |-> text, preferences |-> preferences,
     pc |-> "gus_check", session |-> 0,
     intent |-> Intent("none", <<>>),
     kind |-> "none", key |-> <<>>, provider |-> "none", now |-> 0,
     result |-> NoResult, reply |-> NoReply,
     \* history of the request, not program state:
     inv |-> <<>>,          \* the providers it invoked, in order
     answer |-> NoResult,   \* what the provider answered
     appended |-> <<>>,     \* the turns it appended, in order
     hit |-> FALSE,         \* its cache lookup was served from the cache
     seen |-> NoEntry,      \* the cache entry its lookup found under its key
     messages |-> <<>>,     \* the messages it handed to the chat completion
     joined |-> {}]         \* the fetches of its key in flight when it missed

Running(r) == req[r].pc # "done"

Receive(op, user, text, preferences) ==
    /\ req' = Append(req, NewRequest(op, user, text, preferences))
    /\ UNCHANGED <<clock, ticks, keys, user_sessions, agents, simple_vars>>

\* time passes
Tick(d) ==
    /\ ticks < MaxTicks
    /\ clock' = clock + d
    /\ ticks' = ticks + 1
    /\ UNCHANGED <<keys, user_sessions, agents, req, simple_vars>>

(***************************************************************************)
(* get_user_session: the membership test, the creation, the return.        *)
(***************************************************************************)
\* The routes test their required fields before get_user_session:
\* `if not user_id`, `if not user_id or not user_input`, `if not preferences`.
HasRequiredFields(rq) ==
    CASE rq.op = "initialize" -> rq.user # <<>>
      [] rq.op = "request" -> rq.user # <<>> /\ rq.text # <<>>
      [] rq.op = "preferences" -> rq.preferences # <<>>
      [] OTHER -> TRUE

missing_field_error(op) ==
    IF op = "initialize" THEN Reply("Missing userId", <<>>, <<>>)
    ELSE Reply("Missing required fields", <<>>, <<>>)

BadRequest == [status |-> "400", data |-> <<>>]

\* return jsonify({"success": False, "error": ...}), 400
Reject(r) ==
    /\ req[r].pc = "gus_check"
    /\ ~HasRequiredFields(req[r])
    /\ req' = [req EXCEPT ![r].result = BadRequest,
                          ![r].reply = missing_field_error(req[r].op),
                          ![r].pc = "done"]
    /\ UNCHANGED <<clock, ticks, keys, user_sessions, agents, simple_vars>>

\* Faulty variant of GusCheck: only the user id is required.
GusCheckIgnoresInput(r) ==
    /\ req[r].pc = "gus_check"
    /\ req[r].user \in Users
    /\ req' = [req EXCEPT ![r].pc =
                  IF user_sessions[req[r].user] = 0 THEN "gus_store" ELSE "gus_return"]
    /\ UNCHANGED <<clock, ticks, keys, user_sessions, agents, simple_vars>>

GusCheck(r) ==
    /\ req[r].pc = "gus_check"
    /\ HasRequiredFields(req[r])
    /\ req' = [req EXCEPT ![r].pc =
                  IF user_sessions[req[r].user] = 0 THEN "gus_store" ELSE "gus_return"]
    /\ UNCHANGED <<clock, ticks, keys, user_sessions, agents, simple_vars>>

\* Faulty variant of GusStore: a new user is given the object of a user who
\* already has one.
GusStoreSharesObject(r) ==
    /\ req[r].pc = "gus_store"
    /\ agents' = IF agents = <<>> THEN <<NewsAgentInit>> ELSE agents
    /\ user_sessions' = [user_sessions EXCEPT ![req[r].user] = 1]
    /\ req' = [req EXCEPT ![r].pc = "gus_return"]
    /\ UNCHANGED <<clock, ticks, keys, simple_vars>>

GusStore(r) ==
    /\ req[r].pc = "gus_store"
    /\ agents' = Append(agents, NewsAgentInit)
    /\ user_sessions' = [user_sessions EXCEPT ![req[r].user] = Len(agents) + 1]
    /\ req' = [req EXCEPT ![r].pc = "gus_return"]
    /\ UNCHANGED <<clock, ticks, keys, simple_vars>>

FirstStatement(op) ==
    CASE op = "initialize" -> "init_update"
      [] op = "request" -> "pr_append_user"
      [] op = "history" -> "hist_read"
      [] op = "clear" -> "clear_set"
      [] op = "preferences" -> "prefs_update"

GusReturn(r) ==
    /\ req[r].pc = "gus_return"
    /\ req' = [req EXCEPT ![r].session = user_sessions[req[r].user],
                          ![r].pc = FirstStatement(req[r].op)]
    /\ UNCHANGED <<clock, ticks, keys, user_sessions, agents, simple_vars>>

(***************************************************************************)
(* NewsAgent.initialize: the preferences update.                           *)
(***************************************************************************)
\* Faulty variant of InitUpdate: the given preferences replace the stored ones.
InitUpdateReplaces(r) ==
    /\ req[r].pc = "init_update"
    /\ LET o == req[r].session IN
       agents' = [agents EXCEPT ![o].user_preferences =
                     IF req[r].preferences # <<>> THEN req[r].preferences ELSE @]
    /\ req' = [req EXCEPT ![r].pc = "agg_lookup"]
    /\ UNCHANGED <<clock, ticks, keys, user_sessions, simple_vars>>

InitUpdate(r) ==
    /\ req[r].pc = "init_update"
    /\ LET o == req[r].session IN
       agents' = [agents EXCEPT ![o].user_preferences =
                     IF req[r].preferences # <<>>
                     THEN DictUpdate(@, req[r].preferences) ELSE @]
    /\ req' = [req EXCEPT ![r].pc = "agg_lookup"]
    /\ UNCHANGED <<clock, ticks, keys, user_sessions, simple_vars>>

(***************************************************************************)
(* NewsAgent.process_request: the user turn and the intent.                *)
(***************************************************************************)
IsFetch(intent) ==
    intent.type \in {"fetch_headlines", "fetch_specific_publication", "fetch_topic"}

(***************************************************************************)
(* The route /api/publication/<publication>: a NewsAgentAPI of its own,    *)
(* get_from_publication, the response. The object is kept in agents; its   *)
(* history and preferences are not used.                                   *)
(***************************************************************************)
\* (the name asked for is kept in intent.name, where the handlers keep theirs)
ReceivePublication(publication) ==
    /\ req' = Append(req, [NewRequest("publication", <<>>, publication, <<>>)
                              EXCEPT !.pc = "direct_new",
                                     !.intent = Intent("none", publication)])
    /\ UNCHANGED <<clock, ticks, keys, user_sessions, agents, simple_vars>>

\* news_agent_api = NewsAgentAPI()
DirectNew(r) ==
    /\ req[r].pc = "direct_new"
    /\ agents' = Append(agents, NewsAgentInit)
    /\ req' = [req EXCEPT ![r].session = Len(agents) + 1, ![r].pc = "agg_lookup"]
    /\ UNCHANGED <<clock, ticks, keys, user_sessions, simple_vars>>

\* return jsonify(...)
DirectReturn(r) ==
    /\ req[r].pc = "append"
    /\ req[r].op = "publication"
    /\ req' = [req EXCEPT ![r].pc = "done"]
    /\ UNCHANGED <<clock, ticks, keys, user_sessions, agents, simple_vars>>

(***************************************************************************)
(* A NewsAgentAPI object used on its own, as the unit tests do: the        *)
(* construction, a call of one of its three methods, the return. The first *)
(* argument of the call is kept in text (and in intent.name), its keyword  *)
(* arguments (category, language) in preferences.                          *)
(***************************************************************************)
\* self.api = NewsAgentAPI()
ApiNew ==
    /\ agents = <<>>
    /\ agents' = <<NewsAgentInit>>
    /\ UNCHANGED <<clock, ticks, keys, user_sessions, req, simple_vars>>

ApiCall(op, first, keywords) ==
    /\ agents # <<>>
    /\ req' = Append(req, [NewRequest(op, <<>>, first, keywords)
                              EXCEPT !.pc = "agg_lookup",
                                     !.session = 1,
                                     !.intent = Intent("none", first)])
    /\ UNCHANGED <<clock, ticks, keys, user_sessions, agents, simple_vars>>

\* return headlines / return articles
ApiReturn(r) ==
    /\ req[r].pc = "append"
    /\ req[r].op \in ApiCalls
    /\ req' = [req EXCEPT ![r].pc = "done"]
    /\ UNCHANGED <<clock, ticks, keys, user_sessions, agents, simple_vars>>

\* Faulty variant of PrAppendUser: the user turn is not recorded.
PrAppendUserSkips(r) ==
    /\ req[r].pc = "pr_append_user"
    /\ LET intent == detect_intent(req[r].text) IN
       req' = [req EXCEPT ![r].intent = intent,
                          ![r].pc = IF IsFetch(intent) THEN "agg_lookup" ELSE "dispatch"]
    /\ UNCHANGED <<clock, ticks, keys, user_sessions, agents, simple_vars>>

PrAppendUser(r) ==
    /\ req[r].pc = "pr_append_user"
    /\ LET o == req[r].session
           turn == Turn("user", UserContent(req[r].text), r)
           intent == detect_intent(req[r].text)
       IN /\ agents' = [agents EXCEPT ![o].conversation_history = Append(@, turn)]
          /\ req' = [req EXCEPT ![r].intent = intent,
                                ![r].appended = Append(@, turn),
                                ![r].pc = IF IsFetch(intent) THEN "agg_lookup"
                                          ELSE "dispatch"]
    /\ UNCHANGED <<clock, ticks, keys, user_sessions, simple_vars>>

\* generate_conversational_response: the messages of the completion call
system_message ==
    [role |-> "system",
     content |-> Reply("You are News Agent, an AI assistant that helps users stay informed about current events. ...",
                       <<>>, <<>>)]

FormatMessages(conversation_history) ==
    [i \in 1..Len(conversation_history) |->
        [role |-> conversation_history[i].role,
         content |-> conversation_history[i].content]]

chat_messages(user_input, conversation_history) ==
    <<system_message>> \o FormatMessages(conversation_history)
        \o <<[role |-> "user", content |-> UserContent(user_input)]>>

\* discuss_news: the generation call returns a text or fails
Discuss(r, generated) ==
    /\ req[r].pc = "dispatch"
    /\ req[r].intent.type = "discussion"
    /\ req' = [req EXCEPT
                  ![r].messages = chat_messages(req[r].text,
                                      agents[req[r].session].conversation_history),
                  ![r].reply = discuss_news(generated),
                  ![r].pc = "append"]
    /\ UNCHANGED <<clock, ticks, keys, user_sessions, agents, simple_vars>>

\* discuss_news without OPENAI_API_KEY: the call is not made
DiscussNoKey(r) ==
    /\ req[r].pc = "dispatch"
    /\ req[r].intent.type = "discussion"
    /\ req' = [req EXCEPT ![r].reply = discuss_news(FALSE), ![r].pc = "append"]
    /\ UNCHANGED <<clock, ticks, keys, user_sessions, agents, simple_vars>>

\* Faulty variant of IntentPreferences: the preferences are reset.
IntentPreferencesResets(r) ==
    /\ req[r].pc = "dispatch"
    /\ req[r].intent.type = "update_preferences"
    /\ LET o == req[r].session IN
       agents' = [agents EXCEPT ![o].user_preferences = DefaultPreferences]
    /\ req' = [req EXCEPT ![r].reply = preferences_message(<<>>), ![r].pc = "append"]
    /\ UNCHANGED <<clock, ticks, keys, user_sessions, simple_vars>>

\* update_user_preferences(intent.get('preferences', {}))
IntentPreferences(r) ==
    /\ req[r].pc = "dispatch"
    /\ req[r].intent.type = "update_preferences"
    /\ LET o == req[r].session IN
       agents' = [agents EXCEPT ![o].user_preferences = DictUpdate(@, <<>>)]
    /\ req' = [req EXCEPT ![r].reply = preferences_message(<<>>), ![r].pc = "append"]
    /\ UNCHANGED <<clock, ticks, keys, user_sessions, simple_vars>>

(***************************************************************************)
(* NewsAgentAPI.get_top_headlines, get_from_publication, get_news_by_topic *)
(* as called by the handlers: the cache lookup, the provider call, the     *)
(* cache update.                                                           *)
(***************************************************************************)
KindOf(rq) ==
    IF rq.op \in {"initialize", "get_top_headlines"} THEN "headlines"
    ELSE IF rq.op \in {"publication", "get_from_publication"} THEN "publications"
    ELSE IF rq.op = "get_news_by_topic" THEN "topics"
    ELSE CASE rq.intent.type = "fetch_headlines" -> "headlines"
           [] rq.intent.type = "fetch_specific_publication" -> "publications"
           [] rq.intent.type = "fetch_topic" -> "topics"

KeyOf(rq, user_preferences) ==
    IF rq.op = "get_top_headlines"
    THEN headlines_cache_key(rq.text, rq.preferences.category)
    ELSE IF KindOf(rq) = "headlines"
    THEN headlines_cache_key(RegionCountry(user_preferences), <<>>)
    ELSE Lower(rq.intent.name)

\* self.cache[kind][cache_key] = {'timestamp': now, 'data': data}
UpdateCache(cache, kind, cache_key, now, data) ==
    [cache EXCEPT ![kind] = DictSet(@, cache_key, CacheEntry(now, data))]

InFlight(r, o, kind, cache_key) ==
    {q \in 1..Len(req) :
        /\ q # r
        /\ req[q].pc = "agg_fetch"
        /\ req[q].session = o
        /\ req[q].kind = kind
        /\ req[q].key = cache_key}

\* now = time.time(); the cache test; on a hit the return of the cached data;
\* on a miss the choice of the provider
AggLookup(r) ==
    /\ req[r].pc = "agg_lookup"
    /\ LET rq == req[r]
           o == rq.session
           kind == KindOf(rq)
           cache_key == KeyOf(rq, agents[o].user_preferences)
           c == agents[o].cache[kind]
           now == clock
           seen == IF cache_key \in DOMAIN c
                   THEN [present |-> TRUE, timestamp |-> c[cache_key].timestamp,
                         data |-> c[cache_key].data]
                   ELSE NoEntry
           provider == ProviderFor(keys, kind, cache_key)
           at == [rq EXCEPT !.kind = kind, !.key = cache_key, !.now = now, !.seen = seen]
       IN IF IsLive(c, cache_key, now)
          THEN /\ req' = [req EXCEPT ![r] =
                            [at EXCEPT !.hit = TRUE,
                                       !.result = Ok(c[cache_key].data),
                                       !.reply = ComposeFetch(rq.op, rq.intent,
                                                              Ok(c[cache_key].data)),
                                       !.pc = "append"]]
               /\ UNCHANGED agents
          ELSE IF provider = "none"
          THEN /\ req' = [req EXCEPT ![r] =
                            [at EXCEPT !.result = Ok(<<>>),
                                       !.reply = ComposeFetch(rq.op, rq.intent, Ok(<<>>)),
                                       !.pc = "append"]]
               /\ agents' = IF StoresEmptyWithoutProvider(kind)
                            THEN [agents EXCEPT ![o].cache =
                                     UpdateCache(@, kind, cache_key, now, <<>>)]
                            ELSE agents
          ELSE /\ req' = [req EXCEPT ![r] =
                            [at EXCEPT !.provider = provider,
                                       !.joined = InFlight(r, o, kind, cache_key),
                                       !.pc = "agg_fetch"]]
               /\ UNCHANGED agents
    /\ UNCHANGED <<clock, ticks, keys, user_sessions, simple_vars>>

\* Faulty variant of AggFetchOk: a call that finds an entry stored under its
\* key since its lookup returns that entry instead of its own answer.
AggFetchOkKeepsFirst(r, articles) ==
    /\ req[r].pc = "agg_fetch"
    /\ LET rq == req[r]
           o == rq.session
           c == agents[o].cache[rq.kind]
           stored == rq.key \in DOMAIN c /\ c[rq.key].timestamp >= rq.now
           result == IF stored THEN Ok(c[rq.key].data) ELSE Ok(articles)
       IN /\ agents' = IF stored THEN agents
                       ELSE [agents EXCEPT ![o].cache =
                                UpdateCache(@, rq.kind, rq.key, rq.now, articles)]
          /\ req' = [req EXCEPT ![r] =
                        [rq EXCEPT !.inv = Append(@, rq.provider),
                                   !.answer = Ok(articles),
                                   !.result = result,
                                   !.reply = ComposeFetch(rq.op, rq.intent, result),
                                   !.pc = "append"]]
    /\ UNCHANGED <<clock, ticks, keys, user_sessions, simple_vars>>

\* the provider answers: the articles are stored under the key with the
\* timestamp taken at the start of the call, and returned
AggFetchOk(r, articles) ==
    /\ req[r].pc = "agg_fetch"
    /\ LET rq == req[r]
           o == rq.session
       IN /\ agents' = [agents EXCEPT ![o].cache =
                           UpdateCache(@, rq.kind, rq.key, rq.now, articles)]
          /\ req' = [req EXCEPT ![r] =
                        [rq EXCEPT !.inv = Append(@, rq.provider),
                                   !.answer = Ok(articles),
                                   !.result = Ok(articles),
                                   !.reply = ComposeFetch(rq.op, rq.intent, Ok(articles)),
                                   !.pc = "append"]]
    /\ UNCHANGED <<clock, ticks, keys, user_sessions, simple_vars>>

\* Faulty variant of AggFetchFail: the failed call is tried again.
AggFetchFailRetries(r) ==
    /\ req[r].pc = "agg_fetch"
    /\ Len(req[r].inv) < 2
    /\ req' = [req EXCEPT ![r].inv = Append(@, req[r].provider)]
    /\ UNCHANGED <<clock, ticks, keys, user_sessions, agents, simple_vars>>

\* Faulty variant of AggFetchFail: the failure is stored as an empty result.
AggFetchFailCaches(r) ==
    /\ req[r].pc = "agg_fetch"
    /\ LET rq == req[r]
           o == rq.session
       IN /\ agents' = [agents EXCEPT ![o].cache =
                           UpdateCache(@, rq.kind, rq.key, rq.now, <<>>)]
          /\ req' = [req EXCEPT ![r] =
                        [rq EXCEPT !.inv = Append(@, rq.provider),
                                   !.answer = Error,
                                   !.result = Error,
                                   !.reply = ComposeFetch(rq.op, rq.intent, Error),
                                   !.pc = "append"]]
    /\ UNCHANGED <<clock, ticks, keys, user_sessions, simple_vars>>

\* Faulty variant of AggFetchFail: no handler catches the exception, the
\* request ends without a reply.
AggFetchFailEscapes(r) ==
    /\ req[r].pc = "agg_fetch"
    /\ LET rq == req[r] IN
       req' = [req EXCEPT ![r] =
                  [rq EXCEPT !.inv = Append(@, rq.provider),
                             !.answer = Error,
                             !.result = Error,
                             !.pc = "done"]]
    /\ UNCHANGED <<clock, ticks, keys, user_sessions, agents, simple_vars>>

\* Faulty variant of AggFetchFail: after a failure of NewsAPI the NYT is
\* tried when its key is configured.
AggFetchFailFallsBack(r) ==
    /\ req[r].pc = "agg_fetch"
    /\ LET rq == req[r]
           fallback == rq.provider = "newsapi" /\ keys.nyt
           result == IF fallback THEN Ok(<<Article("T1")>>) ELSE Error
       IN req' = [req EXCEPT ![r] =
                     [rq EXCEPT !.inv = IF fallback THEN @ \o <<rq.provider, "nyt">>
                                        ELSE Append(@, rq.provider),
                                !.answer = Error,
                                !.result = result,
                                !.reply = ComposeFetch(rq.op, rq.intent, result),
                                !.pc = "append"]]
    /\ UNCHANGED <<clock, ticks, keys, user_sessions, agents, simple_vars>>

\* the provider call fails: the except branch raises to the handler
AggFetchFail(r) ==
    /\ req[r].pc = "agg_fetch"
    /\ LET rq == req[r] IN
       req' = [req EXCEPT ![r] =
                  [rq EXCEPT !.inv = Append(@, rq.provider),
                             !.answer = Error,
                             !.result = Error,
                             !.reply = ComposeFetch(rq.op, rq.intent, Error),
                             !.pc = "append"]]
    /\ UNCHANGED <<clock, ticks, keys, user_sessions, agents, simple_vars>>

(***************************************************************************)
(* The last statement of each route.                                       *)
(***************************************************************************)
\* conversation_history.append({"role": "assistant", "content": response})
AppendAssistant(r) ==
    /\ req[r].pc = "append"
    /\ LET o == req[r].session
           turn == Turn("assistant", req[r].reply, r)
       IN /\ agents' = [agents EXCEPT ![o].conversation_history = Append(@, turn)]
          /\ req' = [req EXCEPT ![r].appended = Append(@, turn), ![r].pc = "done"]
    /\ UNCHANGED <<clock, ticks, keys, user_sessions, simple_vars>>

\* get_history: "history": session.conversation_history
HistRead(r) ==
    /\ req[r].pc = "hist_read"
    /\ req' = [req EXCEPT ![r].result = Ok(agents[req[r].session].conversation_history),
                          ![r].pc = "done"]
    /\ UNCHANGED <<clock, ticks, keys, user_sessions, agents, simple_vars>>

\* Faulty variant of ClearSet: the whole session is reset.
ClearSetResetsAll(r) ==
    /\ req[r].pc = "clear_set"
    /\ agents' = [agents EXCEPT ![req[r].session] = NewsAgentInit]
    /\ req' = [req EXCEPT ![r].pc = "done"]
    /\ UNCHANGED <<clock, ticks, keys, user_sessions, simple_vars>>

\* clear_history: session.conversation_history = []
ClearSet(r) ==
    /\ req[r].pc = "clear_set"
    /\ agents' = [agents EXCEPT ![req[r].session].conversation_history = <<>>]
    /\ req' = [req EXCEPT ![r].pc = "done"]
    /\ UNCHANGED <<clock, ticks, keys, user_sessions, simple_vars>>

\* update_preferences: session.update_user_preferences(preferences)
PrefsUpdate(r) ==
    /\ req[r].pc = "prefs_update"
    /\ agents' = [agents EXCEPT ![req[r].session].user_preferences =
                     DictUpdate(@, req[r].preferences)]
    /\ req' = [req EXCEPT ![r].reply = preferences_message(req[r].preferences),
                          ![r].pc = "done"]
    /\ UNCHANGED <<clock, ticks, keys, user_sessions, simple_vars>>

(***************************************************************************)
(* news_agent_simple.py: the routes that use the user_sessions dict. Each  *)
(* route is one step.                                                      *)
(***************************************************************************)
IsSpace(c) == c \in {" ", "\t", "\n"}

\* str.split(): the maximal runs of non-whitespace characters
RECURSIVE SplitFrom(_, _, _)
SplitFrom(s, i, word) ==
    IF i > Len(s) THEN (IF word = <<>> THEN <<>> ELSE <<word>>)
    ELSE IF IsSpace(s[i])
         THEN (IF word = <<>> THEN <<>> ELSE <<word>>) \o SplitFrom(s, i + 1, <<>>)
         ELSE SplitFrom(s, i + 1, Append(word, s[i]))

Split(s) == SplitFrom(s, 1, <<>>)

simple_headline_phrases == <<s_headlines, s_news, s_today>>

simple_categories == <<s_politics, s_business, s_technology, s_sports, s_health, s_science>>

simple_publications == <<s_new_york_times, s_nyt>>

simple_topic_phrases == <<s_about, s_regarding, s_on, s_related_to>>

\* the words that follow 'about', 'regarding' or 'on'
potential_topics(words) ==
    LET idx == {i \in 1..Len(words) :
                   /\ words[i] \in {s_about, s_regarding, s_on}
                   /\ i + 1 <= Len(words)}
        nth[k \in 0..Cardinality(idx)] ==
            IF k = 0 THEN <<>>
            ELSE LET i == CHOOSE i \in idx : Cardinality({j \in idx : j < i}) = k - 1
                 IN Append(nth[k - 1], words[i + 1])
    IN nth[Cardinality(idx)]

\* response_text of process_request
simple_response_text(user_input) ==
    LET input_lower == Lower(user_input) IN
    IF AnyIn(simple_headline_phrases, input_lower)
    THEN Reply("Here are the latest {0}headlines:",
               <<IF AnyIn(simple_categories, input_lower)
                 THEN FirstIn(simple_categories, input_lower) \o <<" ">>
                 ELSE <<>>>>, <<>>)
    ELSE IF AnyIn(simple_publications, input_lower)
    THEN Reply("Here are the latest articles from The New York Times:", <<>>, <<>>)
    ELSE IF AnyIn(simple_topic_phrases, input_lower)
    THEN IF potential_topics(Split(input_lower)) # <<>>
         THEN Reply("Here are some articles about {0}:",
                    <<potential_topics(Split(input_lower))[1]>>, <<>>)
         ELSE Reply("I received your message: '{0}'. What specific topic would you like to read about?",
                    <<user_input>>, <<>>)
    ELSE Reply("I received your message: '{0}'. What kind of news are you interested in today?",
               <<user_input>>, <<>>)

simple_welcome_message(user_id) ==
    Reply("Welcome to News Agent! Session initialized for user {0}", <<user_id>>, <<>>)

SimpleResponse(op, user, arg, status, body) ==
    [op |-> op, user |-> user, arg |-> arg, status |-> status, body |-> body]

SimpleServed(op, user, arg, status, body) ==
    /\ simple_out' = SimpleResponse(op, user, arg, status, body)
    /\ simple_ops' = simple_ops + 1
    /\ UNCHANGED py_vars

\* initialize_session: the session dict of the user is assigned anew
SimpleInitialize(user_id, preferences) ==
    LET welcome == Turn("assistant", simple_welcome_message(user_id), 0) IN
    /\ simple_sessions' =
          DictSet(simple_sessions, user_id,
                  [preferences |-> preferences, conversation_history |-> <<welcome>>])
    /\ SimpleServed("initialize", user_id, preferences, 200, <<welcome.content>>)

\* the history of a session dict, created empty when the key is missing
SimpleHistoryOf(session) == DictGet(session, "conversation_history", <<>>)

\* process_request: both turns are stored only if the user has a session
SimpleProcessRequest(user_id, user_input) ==
    LET response_text == simple_response_text(user_input)
        turns == <<Turn("user", UserContent(user_input), 0),
                   Turn("assistant", response_text, 0)>>
    IN /\ simple_sessions' =
             IF user_id \in DOMAIN simple_sessions
             THEN [simple_sessions EXCEPT ![user_id] =
                      DictSet(@, "conversation_history", SimpleHistoryOf(@) \o turns)]
             ELSE simple_sessions
       /\ SimpleServed("request", user_id, user_input, 200, <<response_text>>)

\* get_history
SimpleGetHistory(user_id) ==
    /\ UNCHANGED simple_sessions
    /\ SimpleServed("history", user_id, <<>>, 200,
                    IF /\ user_id \in DOMAIN simple_sessions
                       /\ "conversation_history" \in DOMAIN simple_sessions[user_id]
                    THEN simple_sessions[user_id]["conversation_history"]
                    ELSE <<>>)

\* clear_history
SimpleClearHistory(user_id) ==
    /\ simple_sessions' =
          IF user_id \in DOMAIN simple_sessions
          THEN [simple_sessions EXCEPT ![user_id] = DictSet(@, "conversation_history", <<>>)]
          ELSE simple_sessions
    /\ SimpleServed("clear", user_id, <<>>, 200, <<>>)

\* update_preferences: user_sessions[user_id]['preferences'] = preferences
SimpleUpdatePreferences(user_id, preferences) ==
    /\ simple_sessions' =
          LET session == DictGet(simple_sessions, user_id, <<>>) IN
          DictSet(simple_sessions, user_id, DictSet(session, "preferences", preferences))
    /\ SimpleServed("preferences", user_id, preferences, 200, <<>>)

\* the routes that fetch: `answer` is what the NYT request of the route
\* yields, Ok(articles) or Error (an exception or a status other than 200)
FirstTen(articles) == SubSeq(articles, 1, IF Len(articles) < 10 THEN Len(articles) ELSE 10)

SimpleFetched(op, input, provider, status, articles) ==
    /\ UNCHANGED simple_sessions
    /\ SimpleServed(op, <<>>, [input |-> input, provider |-> provider], status, articles)

\* get_headlines: the except branch answers with two mock articles
SimpleGetHeadlines(answer) ==
    IF answer.status = "ok"
    THEN SimpleFetched("headlines", <<>>, "answered", 200, FirstTen(answer.data))
    ELSE SimpleFetched("headlines", <<>>, "failed", 200,
                       <<Article("Breaking News: Technology Advances"),
                         Article("Global Markets Update")>>)

\* get_by_topic: the except branch answers with one mock article
SimpleGetByTopic(topic, answer) ==
    IF answer.status = "ok"
    THEN SimpleFetched("topic", topic, "answered", 200, FirstTen(answer.data))
    ELSE SimpleFetched("topic", topic, "failed", 200, <<Article("News about {topic}")>>)

\* get_from_publication: the NYT is asked for its own names only; the except
\* branch reports the failure
SimpleGetFromPublication(publication, answer) ==
    IF Lower(publication) \in {s_new_york_times, s_nyt, s_ny_times}
    THEN IF answer.status = "ok"
         THEN SimpleFetched("publication", publication, "answered", 200,
                            FirstTen(answer.data))
         ELSE SimpleFetched("publication", publication, "failed", 500, <<>>)
    ELSE /\ answer = Error
         /\ SimpleFetched("publication", publication, "none", 200,
                          <<Article("Story from {publication}")>>)

SimpleAnswers == {Ok(<<Article("T1")>>), Error}

(***************************************************************************)
(* Inputs.                                                                 *)
(***************************************************************************)
s_hi == <<"h", "i">>

PartialRegion == [region |-> s_uk]

PartialTopics == [update_frequency |-> "hourly", favorite_topics |-> <<"sports", "business">>]

Payloads == {<<Article("T1")>>, <<Article(None), Article("T2")>>}

KeyConfigs == [news : BOOLEAN, nyt : BOOLEAN, guardian : {FALSE}]

NewsOnly == [news |-> TRUE, nyt |-> FALSE, guardian |-> FALSE]

TickDeltas == {cache_duration - 1, cache_duration}

InitPython(key_configs) ==
    /\ clock = 0
    /\ ticks = 0
    /\ keys \in key_configs
    /\ user_sessions = [u \in Users |-> 0]
    /\ agents = <<>>
    /\ req = <<>>

InitSimple ==
    /\ simple_sessions = <<>>
    /\ simple_out = SimpleResponse("none", <<>>, <<>>, 0, <<>>)
    /\ simple_ops = 0

AllDone == \A r \in 1..Len(req) : req[r].pc = "done"

(***************************************************************************)
(* Spec: the python variant, the requests of one user running concurrently.*)
(***************************************************************************)
Init == InitPython({NewsOnly}) /\ InitSimple

Next ==
    \/ /\ Len(req) < MaxReq
       /\ \/ \E t \in {s_top_news, s_hi} : Receive("request", <<"a">>, t, <<>>)
          \/ Receive("clear", <<"a">>, <<>>, <<>>)
          \/ Receive("preferences", <<"a">>, <<>>, PartialRegion)
    \/ \E r \in 1..Len(req) :
          \/ GusCheck(r)
          \/ GusStore(r)
          \/ GusReturn(r)
          \/ PrAppendUser(r)
          \/ \E g \in BOOLEAN : Discuss(r, g)
          \/ AggLookup(r)
          \/ \E a \in Payloads : AggFetchOk(r, a)
          \/ AggFetchFail(r)
          \/ AppendAssistant(r)
          \/ ClearSet(r)
          \/ PrefsUpdate(r)

Spec == Init /\ [][Next]_vars

(***************************************************************************)
(* SerialSpec: the python variant, two users, one request after another.   *)
(***************************************************************************)
SerialNext ==
    \/ /\ AllDone
       /\ Len(req) < MaxSerial
       /\ \/ \E u \in Users, t \in {s_top_news, s_cnn, s_covid} :
                Receive("request", u, t, <<>>)
          \/ \E u \in Users : Receive("clear", u, <<>>, <<>>)
          \/ \E u \in Users : Receive("preferences", u, <<>>, PartialRegion)
    \/ \E r \in 1..Len(req) :
          \/ GusCheck(r)
          \/ GusStore(r)
          \/ GusReturn(r)
          \/ PrAppendUser(r)
          \/ AggLookup(r)
          \/ \E a \in Payloads : AggFetchOk(r, a)
          \/ AggFetchFail(r)
          \/ AppendAssistant(r)
          \/ ClearSet(r)
          \/ PrefsUpdate(r)

SerialSpec == Init /\ [][SerialNext]_vars

(***************************************************************************)
(* CacheSpec: the python variant, fetch requests of one user one after     *)
(* another while time passes, under every configuration of the keys.       *)
(***************************************************************************)
CacheInit == InitPython(KeyConfigs) /\ InitSimple

CacheNext ==
    \/ /\ AllDone
       /\ Len(req) < MaxCalls
       /\ \E t \in {s_top_news, s_new_york_times, s_covid} :
             Receive("request", <<"a">>, t, <<>>)
    \/ \E d \in TickDeltas : Tick(d)
    \/ \E r \in 1..Len(req) :
          \/ GusCheck(r)
          \/ GusStore(r)
          \/ GusReturn(r)
          \/ PrAppendUser(r)
          \/ AggLookup(r)
          \/ \E a \in Payloads : AggFetchOk(r, a)
          \/ AggFetchFail(r)
          \/ AppendAssistant(r)

CacheSpec == CacheInit /\ [][CacheNext]_vars

(***************************************************************************)
(* SimpleSpec: the simple variant, one request after another.              *)
(***************************************************************************)
s_on_ai == <<"o", "n", " ", "A", "I">>

SimpleNext ==
    /\ simple_ops < MaxSimpleOps
    /\ \/ \E u \in Users, p \in {<<>>, PartialRegion} : SimpleInitialize(u, p)
       \/ \E u \in Users, t \in {s_news, s_on_ai} : SimpleProcessRequest(u, t)
       \/ \E u \in Users : SimpleGetHistory(u)
       \/ \E u \in Users : SimpleClearHistory(u)
       \/ \E u \in Users : SimpleUpdatePreferences(u, PartialTopics)
       \/ \E a \in SimpleAnswers : SimpleGetHeadlines(a)
       \/ \E a \in SimpleAnswers : SimpleGetByTopic(s_covid, a)
       \/ \E p \in {s_nyt, s_cnn}, a \in SimpleAnswers : SimpleGetFromPublication(p, a)

SimpleSpec == Init /\ [][SimpleNext]_vars

(***************************************************************************)
(* DialogSpec: the python variant, the requests of one user one after      *)
(* another, with every intent and with results of more than five articles. *)
(***************************************************************************)
SevenArticles ==
    <<Article("T1"), Article(None), Article("T3"), Article("T4"),
      Article("T5"), Article("T6"), Article("T7")>>

\* six articles, the only title on the sixth
LateTitle ==
    <<Article(None), Article(None), Article(None), Article(None),
      Article(None), Article("T6")>>

DialogPayloads == {<<Article(None)>>, SevenArticles, LateTitle}

DialogNext ==
    \/ /\ AllDone
       /\ Len(req) < MaxDialog
       /\ \/ \E t \in {s_hi, s_settings, s_top_news, s_covid} :
                Receive("request", <<"a">>, t, <<>>)
          \/ Receive("preferences", <<"a">>, <<>>, PartialRegion)
    \/ \E r \in 1..Len(req) :
          \/ GusCheck(r)
          \/ GusStore(r)
          \/ GusReturn(r)
          \/ PrAppendUser(r)
          \/ \E g \in BOOLEAN : Discuss(r, g)
          \/ DiscussNoKey(r)
          \/ IntentPreferences(r)
          \/ AggLookup(r)
          \/ \E a \in DialogPayloads : AggFetchOk(r, a)
          \/ AggFetchFail(r)
          \/ AppendAssistant(r)
          \/ PrefsUpdate(r)

DialogSpec == Init /\ [][DialogNext]_vars

\* FairDialogSpec: DialogSpec where a received request is run: the route's
\* coroutine is scheduled until it returns, and a call of a provider or of
\* the chat completion ends, with an answer or with an exception.
DialogRun == DialogNext /\ Len(req') = Len(req)

FairDialogSpec == DialogSpec /\ WF_vars(DialogRun)

(***************************************************************************)
(* BoundarySpec: the python variant, the routes called one after another   *)
(* with and without their required fields.                                 *)
(***************************************************************************)
MaxBoundary == 2     \* requests received, boundary specification

BoundaryNext ==
    \/ /\ AllDone
       /\ Len(req) < MaxBoundary
       /\ \/ \E u \in {<<"a">>, <<>>}, p \in {<<>>, PartialRegion} :
                Receive("initialize", u, <<>>, p)
          \/ \E u \in {<<"a">>, <<>>}, t \in {s_top_news, <<>>} :
                Receive("request", u, t, <<>>)
          \/ \E p \in {<<>>, PartialRegion} : Receive("preferences", <<"a">>, <<>>, p)
          \/ Receive("history", <<"a">>, <<>>, <<>>)
    \/ \E r \in 1..Len(req) :
          \/ Reject(r)
          \/ GusCheck(r)
          \/ GusStore(r)
          \/ GusReturn(r)
          \/ InitUpdate(r)
          \/ PrAppendUser(r)
          \/ AggLookup(r)
          \/ \E a \in DialogPayloads : AggFetchOk(r, a)
          \/ AggFetchFail(r)
          \/ AppendAssistant(r)
          \/ PrefsUpdate(r)
          \/ HistRead(r)

BoundarySpec == Init /\ [][BoundaryNext]_vars

(***************************************************************************)
(* IsolationSpec: the python variant, every session route, two users, one  *)
(* request after another.                                                  *)
(***************************************************************************)
MaxIsolation == 3    \* requests received, isolation specification

IsolationNext ==
    \/ /\ AllDone
       /\ Len(req) < MaxIsolation
       /\ \E u \in Users :
             \/ Receive("initialize", u, <<>>, PartialRegion)
             \/ Receive("request", u, s_top_news, <<>>)
             \/ Receive("clear", u, <<>>, <<>>)
             \/ Receive("preferences", u, <<>>, PartialTopics)
             \/ Receive("history", u, <<>>, <<>>)
    \/ \E r \in 1..Len(req) :
          \/ GusCheck(r)
          \/ GusStore(r)
          \/ GusReturn(r)
          \/ InitUpdate(r)
          \/ PrAppendUser(r)
          \/ AggLookup(r)
          \/ AggFetchOk(r, <<Article("T1")>>)
          \/ AggFetchFail(r)
          \/ AppendAssistant(r)
          \/ ClearSet(r)
          \/ PrefsUpdate(r)
          \/ HistRead(r)

IsolationSpec == Init /\ [][IsolationNext]_vars

(***************************************************************************)
(* ApiSpec: one NewsAgentAPI object, its three methods called one after    *)
(* another with parameters that differ in letter case and in language.     *)
(***************************************************************************)
MaxApiCalls == 2     \* calls of the methods, one after another

w_US == <<"U", "S">>
w_Business == <<"B", "u", "s", "i", "n", "e", "s", "s">>
w_AI == <<"A", "I">>
s_ai == <<"a", "i">>
w_CNN == <<"C", "N", "N">>

ApiInputs ==
    {<<"get_top_headlines", c[1], [category |-> c[2]]>> :
         c \in {<<w_US, w_Business>>, <<s_us, s_business>>, <<s_us, <<>>>>}}
    \cup {<<"get_news_by_topic", t, [language |-> l]>> :
              t \in {w_AI, s_ai}, l \in {"en", "fr"}}
    \cup {<<"get_from_publication", p, <<>>>> : p \in {w_CNN, s_cnn}}

ApiNext ==
    \/ ApiNew
    \/ /\ AllDone
       /\ Len(req) < MaxApiCalls
       /\ \E call \in ApiInputs : ApiCall(call[1], call[2], call[3])
    \/ \E r \in 1..Len(req) :
          \/ AggLookup(r)
          \/ \E a \in Payloads : AggFetchOk(r, a)
          \/ AggFetchFail(r)
          \/ ApiReturn(r)

ApiSpec == Init /\ [][ApiNext]_vars

(***************************************************************************)
(* RefreshSpec: one NewsAgentAPI object, calls of get_top_headlines('us')  *)
(* running concurrently while time passes.                                 *)
(***************************************************************************)
MaxRefresh == 2      \* concurrent calls of get_top_headlines

RefreshNext ==
    \/ ApiNew
    \/ /\ Len(req) < MaxRefresh
       /\ ApiCall("get_top_headlines", s_us, [category |-> <<>>])
    \/ \E d \in TickDeltas : Tick(d)
    \/ \E r \in 1..Len(req) :
          \/ AggLookup(r)
          \/ \E a \in Payloads : AggFetchOk(r, a)
          \/ AggFetchFail(r)
          \/ ApiReturn(r)

RefreshSpec == Init /\ [][RefreshNext]_vars

(***************************************************************************)
(* DirectSpec: the route /api/publication/<publication> called one request *)
(* after another, under every configuration of the three keys.             *)
(***************************************************************************)
MaxDirect == 2       \* calls of the publication route

w_NYT == <<"N", "Y", "T">>
w_The_Guardian == <<"T", "h", "e", " ", "G", "u", "a", "r", "d", "i", "a", "n">>
w_New_York_Times == <<"N", "e", "w", " ", "Y", "o", "r", "k", " ", "T", "i", "m", "e", "s">>

PublicationNames == {w_NYT, w_New_York_Times, w_The_Guardian, s_guardian, s_cnn, s_ny_times}

AllKeyConfigs == [news : BOOLEAN, nyt : BOOLEAN, guardian : BOOLEAN]

DirectInit == InitPython(AllKeyConfigs) /\ InitSimple

DirectNext ==
    \/ /\ AllDone
       /\ Len(req) < MaxDirect
       /\ \E p \in PublicationNames : ReceivePublication(p)
    \/ \E r \in 1..Len(req) :
          \/ DirectNew(r)
          \/ AggLookup(r)
          \/ \E a \in Payloads : AggFetchOk(r, a)
          \/ AggFetchFail(r)
          \/ DirectReturn(r)

DirectSpec == DirectInit /\ [][DirectNext]_vars

(***************************************************************************)
(* detect_intent called on its own, as the unit test does, with texts made *)
(* of at most MaxWords words separated by one space.                       *)
(***************************************************************************)
w_Top_News == <<"T", "o", "p", " ", "N", "e", "w", "s">>
w_BBC == <<"B", "B", "C">>
w_Settings == <<"S", "e", "t", "t", "i", "n", "g", "s">>
w_hello == <<"h", "e", "l", "l", "o">>

Words == {w_Top_News, w_BBC, s_cnn, s_sports, s_politics, s_covid, w_Settings, w_hello}

RECURSIVE TextsOf(_)
TextsOf(n) ==
    IF n = 0 THEN {<<>>}
    ELSE TextsOf(n - 1) \cup
         {(IF t = <<>> THEN <<>> ELSE t \o <<" ">>) \o w : t \in TextsOf(n - 1), w \in Words}

Texts == TextsOf(MaxWords)

\* intent = self.agent.detect_intent(text)
DetectIntentCall(text) ==
    /\ req = <<>>
    /\ req' = <<[NewRequest("detect_intent", <<"a">>, text, <<>>)
                    EXCEPT !.intent = detect_intent(text), !.pc = "done"]>>
    /\ UNCHANGED <<clock, ticks, keys, user_sessions, agents, simple_vars>>

IntentNext == \E text \in Texts : DetectIntentCall(text)

IntentSpec == Init /\ [][IntentNext]_vars

(***************************************************************************)
(* NewsAgentAPI.map_publication_to_news_api_source, and the function       *)
(* called on its own, as the unit test does, with names in every casing.   *)
(***************************************************************************)
\* mapping: the pairs <<name, source id>>
source_mapping ==
    <<<<<<"w", "a", "l", "l", " ", "s", "t", "r", "e", "e", "t", " ", "j", "o", "u", "r", "n", "a", "l">>,
        <<"t", "h", "e", "-", "w", "a", "l", "l", "-", "s", "t", "r", "e", "e", "t", "-", "j", "o", "u", "r", "n", "a", "l">>>>,
      <<<<"w", "s", "j">>,
        <<"t", "h", "e", "-", "w", "a", "l", "l", "-", "s", "t", "r", "e", "e", "t", "-", "j", "o", "u", "r", "n", "a", "l">>>>,
      <<<<"n", "e", "w", " ", "y", "o", "r", "k", " ", "t", "i", "m", "e", "s">>,
        <<"t", "h", "e", "-", "n", "e", "w", "-", "y", "o", "r", "k", "-", "t", "i", "m", "e", "s">>>>,
      <<<<"n", "y", "t">>,
        <<"t", "h", "e", "-", "n", "e", "w", "-", "y", "o", "r", "k", "-", "t", "i", "m", "e", "s">>>>,
      <<<<"w", "a", "s", "h", "i", "n", "g", "t", "o", "n", " ", "p", "o", "s", "t">>,
        <<"t", "h", "e", "-", "w", "a", "s", "h", "i", "n", "g", "t", "o", "n", "-", "p", "o", "s", "t">>>>,
      <<<<"c", "n", "n">>,
        <<"c", "n", "n">>>>,
      <<<<"b", "b", "c">>,
        <<"b", "b", "c", "-", "n", "e", "w", "s">>>>,
      <<<<"b", "b", "c", " ", "n", "e", "w", "s">>,
        <<"b", "b", "c", "-", "n", "e", "w", "s">>>>,
      <<<<"f", "o", "x", " ", "n", "e", "w", "s">>,
        <<"f", "o", "x", "-", "n", "e", "w", "s">>>>,
      <<<<"n", "b", "c", " ", "n", "e", "w", "s">>,
        <<"n", "b", "c", "-", "n", "e", "w", "s">>>>,
      <<<<"a", "b", "c", " ", "n", "e", "w", "s">>,
        <<"a", "b", "c", "-", "n", "e", "w", "s">>>>,
      <<<<"r", "e", "u", "t", "e", "r", "s">>,
        <<"r", "e", "u", "t", "e", "r", "s">>>>,
      <<<<"a", "s", "s", "o", "c", "i", "a", "t", "e", "d", " ", "p", "r", "e", "s", "s">>,
        <<"a", "s", "s", "o", "c", "i", "a", "t", "e", "d", "-", "p", "r", "e", "s", "s">>>>,
      <<<<"a", "p">>,
        <<"a", "s", "s", "o", "c", "i", "a", "t", "e", "d", "-", "p", "r", "e", "s", "s">>>>>>

\* Faulty variant of map_publication_to_news_api_source: the table is
\* searched for the name as given.
map_publication_CaseSensitive(publication) ==
    IF \E i \in 1..Len(source_mapping) : source_mapping[i][1] = publication
    THEN source_mapping[CHOOSE i \in 1..Len(source_mapping) :
                           source_mapping[i][1] = publication][2]
    ELSE Lower(publication)

\* pub_lower = publication.lower(); return mapping.get(pub_lower, pub_lower)
map_publication_to_news_api_source(publication) ==
    LET pub_lower == Lower(publication) IN
    IF \E i \in 1..Len(source_mapping) : source_mapping[i][1] = pub_lower
    THEN source_mapping[CHOOSE i \in 1..Len(source_mapping) :
                           source_mapping[i][1] = pub_lower][2]
    ELSE pub_lower

UpperChar(c) ==
    IF \E i \in 1..Len(LowerChars) : LowerChars[i] = c
    THEN UpperChars[CHOOSE i \in 1..Len(LowerChars) : LowerChars[i] = c]
    ELSE c

\* the name in every casing of its letters
RECURSIVE Casings(_)
Casings(name) ==
    IF name = <<>> THEN {<<>>}
    ELSE {<<c>> \o rest : c \in {name[1], UpperChar(name[1])},
                          rest \in Casings(Tail(name))}

s_wsj == <<"w", "s", "j">>
s_ap == <<"a", "p">>
s_vox == <<"v", "o", "x">>
w_Unknown_Publication == <<"U", "n", "k", "n", "o", "w", "n", " ", "P", "u", "b", "l", "i", "c", "a", "t", "i", "o", "n">>

MappedNames ==
    UNION {Casings(n) : n \in {s_wsj, s_ap, s_nyt, s_cnn, s_bbc, s_fox_news, s_vox}}
        \cup {w_New_York_Times, w_Unknown_Publication, <<>>}

\* self.api.map_publication_to_news_api_source(name)
MapPublicationCall(name) ==
    /\ req = <<>>
    /\ req' = <<[NewRequest("map_publication", <<>>, name, <<>>)
                    EXCEPT !.key = map_publication_to_news_api_source(name),
                           !.pc = "done"]>>
    /\ UNCHANGED <<clock, ticks, keys, user_sessions, agents, simple_vars>>

MapNext == \E name \in MappedNames : MapPublicationCall(name)

MapSpec == Init /\ [][MapNext]_vars

(***************************************************************************)
(* NewsAgentAPI._get_nyt_image_url, and the function called on its own     *)
(* with the multimedia list of an article: at most MaxImages images, each  *)
(* with a url and with a width of at most MaxWidth or with no width.       *)
(***************************************************************************)
MaxImages == 3       \* images of an article

MaxWidth == 3        \* declared width of an image

\* the scan of the list from position i: the largest image so far and its
\* width; `if width > max_width` replaces it
RECURSIVE LargestFrom(_, _, _, _)
LargestFrom(multimedia, i, largest_image, max_width) ==
    IF i > Len(multimedia) THEN largest_image
    ELSE LET image == multimedia[i]
             width == DictGet(image, "width", 0)
         IN IF width > max_width
            THEN LargestFrom(multimedia, i + 1, <<image>>, width)
            ELSE LargestFrom(multimedia, i + 1, largest_image, max_width)

\* largest_image is <<>> for None, <<image>> otherwise
get_nyt_image_url(multimedia) ==
    IF multimedia = <<>> THEN None
    ELSE LET largest_image == LargestFrom(multimedia, 1, <<>>, 0) IN
         IF largest_image # <<>> /\ "url" \in DOMAIN largest_image[1]
         THEN largest_image[1].url
         ELSE None

ImageUrls == <<"u1", "u2", "u3", "u4">>

ImagesAt(i) ==
    {[url |-> ImageUrls[i]]} \cup {[url |-> ImageUrls[i], width |-> w] : w \in 0..MaxWidth}

Multimedia ==
    UNION {{m \in [1..n -> UNION {ImagesAt(i) : i \in 1..n}] :
               \A i \in 1..n : m[i] \in ImagesAt(i)} : n \in 0..MaxImages}

\* 'imageUrl': self._get_nyt_image_url(article)
ImageUrlCall(multimedia) ==
    /\ req = <<>>
    /\ req' = <<[NewRequest("image_url", <<>>, multimedia, <<>>)
                    EXCEPT !.result = Ok(get_nyt_image_url(multimedia)),
                           !.pc = "done"]>>
    /\ UNCHANGED <<clock, ticks, keys, user_sessions, agents, simple_vars>>

ImageNext == \E multimedia \in Multimedia : ImageUrlCall(multimedia)

ImageSpec == Init /\ [][ImageNext]_vars

(***************************************************************************)
(* Views used by the properties.                                           *)
(***************************************************************************)
Requests == 1..Len(req)

\* the request has left the aggregator (its lookup hit, or its fetch ended)
AggDone(r) == req[r].kind # "none" /\ req[r].pc \in {"append", "done"}

\* what the python variant holds for a user
HistOf(u) ==
    IF user_sessions[u] = 0 THEN <<>>
    ELSE agents[user_sessions[u]].conversation_history

PrefsOf(u) ==
    IF user_sessions[u] = 0 THEN DefaultPreferences
    ELSE agents[user_sessions[u]].user_preferences

CacheOf(u) ==
    IF user_sessions[u] = 0 THEN EmptyCache
    ELSE agents[user_sessions[u]].cache

\* what the simple variant holds for a user
SimpleHist(u) ==
    IF u \in DOMAIN simple_sessions THEN SimpleHistoryOf(simple_sessions[u]) ELSE <<>>

SimplePrefs(u) ==
    IF u \in DOMAIN simple_sessions
    THEN DictGet(simple_sessions[u], "preferences", <<>>)
    ELSE <<>>

IsPrefix(s, t) == Len(s) <= Len(t) /\ SubSeq(t, 1, Len(s)) = s

ThirtyMinutes == 30 * 60

C2_TtlWindow ==
    \A r \in Requests :
        (/\ req[r].seen.present
         /\ ProviderFor(keys, req[r].kind, req[r].key) # "none") =>
            IF req[r].now - req[r].seen.timestamp < ThirtyMinutes
            THEN /\ req[r].hit
                 /\ req[r].result = Ok(req[r].seen.data)
                 /\ req[r].inv = <<>>
            ELSE /\ ~req[r].hit
                 /\ AggDone(r) =>
                       /\ Len(req[r].inv) = 1
                       /\ req[r].answer # NoResult
                       /\ req[r].result = req[r].answer

\* an entry aged exactly thirty minutes was found, and the provider was invoked
C2_Witness ==
    \E r \in Requests :
        /\ req[r].seen.present
        /\ req[r].now - req[r].seen.timestamp = ThirtyMinutes
        /\ AggDone(r)
        /\ Len(req[r].inv) = 1

(***************************************************************************)
(* C3. When the provider fetch fails the call returns an error and the     *)
(* step leaves every cache as it was; the next call for the same key finds *)
(* what the failed call found, is not served from the cache and invokes    *)
(* the provider again.                                                     *)
(***************************************************************************)
FailedFetch(r) == AggDone(r) /\ req[r].answer = Error

SameKey(r, q) ==
    /\ req[q].kind = req[r].kind
    /\ req[q].key = req[r].key
    /\ req[q].session = req[r].session

C3_FailureNotCached ==
    /\ [](\A r \in Requests :
            FailedFetch(r) =>
               /\ req[r].result = Error
               /\ (r + 1 \in Requests /\ SameKey(r, r + 1)) =>
                     /\ req[r + 1].seen = req[r].seen
                     /\ ~req[r + 1].hit
                     /\ AggDone(r + 1) => Len(req[r + 1].inv) = 1)
    /\ [][\A r \in Requests :
             (req[r].pc = "agg_fetch" /\ req'[r].answer = Error) =>
                /\ \A o \in 1..Len(agents) : agents'[o].cache = agents[o].cache
                /\ Len(agents') = Len(agents)]_vars

C3_Witness ==
    \E r \in Requests :
        /\ FailedFetch(r)
        /\ r + 1 \in Requests
        /\ SameKey(r, r + 1)
        /\ AggDone(r + 1)
        /\ Len(req[r + 1].inv) = 1

(***************************************************************************)
(* C4. All callers for a user operate on one and the same session: the     *)
(* session a completed operation used is the session of the user, its      *)
(* turns are in that session's history (while no clearHistory was asked    *)
(* for) and its preferences are in that session's preferences.             *)
(***************************************************************************)
NoClearAsked == \A q \in Requests : req[q].op # "clear"

C4_OneSessionPerUser ==
    \A r \in Requests :
        req[r].pc = "done" =>
            /\ req[r].session = user_sessions[req[r].user]
            /\ NoClearAsked =>
                  \A i \in 1..Len(req[r].appended) :
                      \E j \in 1..Len(HistOf(req[r].user)) :
                          HistOf(req[r].user)[j] = req[r].appended[i]
            /\ req[r].op = "preferences" =>
                  \A k \in DOMAIN req[r].preferences :
                      PrefsOf(req[r].user)[k] = req[r].preferences[k]

(***************************************************************************)
(* C5. After N handleUserMessage calls executed one after another on a     *)
(* fresh session the history has exactly 2N turns: for each call, in call  *)
(* order, the user turn with its text, then the assistant turn with the    *)
(* reply the call returned.                                                *)
(***************************************************************************)
RECURSIVE TurnsOfCalls(_, _)
TurnsOfCalls(u, n) ==
    IF n = 0 THEN <<>>
    ELSE TurnsOfCalls(u, n - 1) \o
         (IF req[n].user = u
          THEN <<Turn("user", UserContent(req[n].text), n),
                 Turn("assistant", req[n].reply, n)>>
          ELSE <<>>)

CallsOf(u) == {r \in Requests : req[r].user = u}

OnlyCompletedCalls(u) ==
    \A r \in CallsOf(u) : req[r].op = "request" /\ req[r].pc = "done"

C5_TwoTurnsPerCall ==
    \A u \in Users :
        OnlyCompletedCalls(u) =>
            /\ Len(HistOf(u)) = 2 * Cardinality(CallsOf(u))
            /\ HistOf(u) = TurnsOfCalls(u, Len(req))

C5_Witness ==
    \E u \in Users :
        /\ OnlyCompletedCalls(u)
        /\ Cardinality(CallsOf(u)) >= 2
        /\ Len(HistOf(u)) = 4

(***************************************************************************)
(* C6. In every history the user turn of a completed request is            *)
(* immediately followed by the assistant turn of the same request: the     *)
(* turns of two requests are never interleaved.                            *)
(***************************************************************************)
C6_PairsNotInterleaved ==
    \A o \in 1..Len(agents) :
        LET h == agents[o].conversation_history IN
        \A i \in 1..Len(h) :
            (h[i].role = "user" /\ req[h[i].by].pc = "done") =>
                /\ i < Len(h)
                /\ h[i + 1].role = "assistant"
                /\ h[i + 1].by = h[i].by

(***************************************************************************)
(* C7. When the aggregator fetch fails during handleUserMessage (for a     *)
(* headlines, publication or topic intent) the call completes with one of  *)
(* the fixed apology sentences and no articles, and it appends exactly two *)
(* turns to the history of the session: the turn of the user and then the  *)
(* apology as the turn of the assistant.                                   *)
(***************************************************************************)
ApologySentences ==
    {"I'm sorry, I couldn't fetch the latest headlines right now. Please try again later.",
     "I'm sorry, I couldn't fetch articles from {0} right now. Please try again later.",
     "I'm sorry, I couldn't fetch articles about {0} right now. Please try again later."}

FetchFailedIn(r) ==
    /\ req[r].op = "request"
    /\ req[r].answer = Error
    /\ req[r].pc = "done"

C7_ApologyOnFailure ==
    \A r \in Requests :
        FetchFailedIn(r) =>
            LET user_turn == Turn("user", UserContent(req[r].text), r)
                apology == Turn("assistant", req[r].reply, r)
                h == agents[req[r].session].conversation_history
            IN /\ req[r].intent.type \in
                     {"fetch_headlines", "fetch_specific_publication", "fetch_topic"}
               /\ req[r].reply.tmpl \in ApologySentences
               /\ req[r].reply.lines = <<>>
               /\ req[r].appended = <<user_turn, apology>>
               /\ r = Len(req) =>
                     /\ Len(h) >= 2
                     /\ SubSeq(h, Len(h) - 1, Len(h)) = <<user_turn, apology>>

\* a failed fetch after an earlier exchange in the same session
C7_Witness ==
    \E r \in Requests :
        /\ FetchFailedIn(r)
        /\ r = Len(req)
        /\ Len(agents[req[r].session].conversation_history) = 4

(***************************************************************************)
(* C8. In both variants every operation other than clearHistory leaves the *)
(* previous history of a session as a prefix of its new history, also when *)
(* initializeSession is called for a user who already has a history.       *)
(***************************************************************************)
ClearStep ==
    \/ \E r \in Requests : req[r].pc = "clear_set" /\ req'[r].pc = "done"
    \/ simple_ops' # simple_ops /\ simple_out'.op = "clear"

C8_HistoryAppendOnly ==
    [][~ClearStep =>
          /\ \A o \in 1..Len(agents) :
                IsPrefix(agents[o].conversation_history,
                         agents'[o].conversation_history)
          /\ \A u \in Users : IsPrefix(SimpleHist(u), SimpleHist(u)')]_vars

(***************************************************************************)
(* C9. In both variants an update of the preferences with a partial        *)
(* mapping is a shallow merge: every key of the partial has the value of   *)
(* the partial afterwards and every other key keeps its value.             *)
(***************************************************************************)
IsMerge(before, partial, after) ==
    /\ \A k \in DOMAIN partial : k \in DOMAIN after /\ after[k] = partial[k]
    /\ \A k \in DOMAIN before \ DOMAIN partial :
          k \in DOMAIN after /\ after[k] = before[k]

C9_ShallowMerge ==
    [][/\ \A r \in Requests :
             (req[r].pc = "prefs_update" /\ req'[r].pc = "done") =>
                 IsMerge(agents[req[r].session].user_preferences,
                         req[r].preferences,
                         agents'[req[r].session].user_preferences)
       /\ \A u \in Users :
             (/\ simple_ops' # simple_ops
              /\ simple_out'.op = "preferences"
              /\ simple_out'.user = u) =>
                 IsMerge(SimplePrefs(u), simple_out'.arg, SimplePrefs(u)')]_vars

(***************************************************************************)
(* C10. clearHistory(userId), executed when no other operation is running, *)
(* sets the history of that user to the empty sequence and leaves the      *)
(* preferences of that user, the session of every other user and every     *)
(* cache unchanged.                                                        *)
(***************************************************************************)
C10_ClearFrame ==
    [][\A r \in Requests :
          (req[r].op = "clear" /\ req'[r].pc # req[r].pc) =>
              LET u == req[r].user IN
              /\ PrefsOf(u)' = PrefsOf(u)
              /\ CacheOf(u)' = CacheOf(u)
              /\ \A o \in 1..Len(agents) : agents'[o].cache = agents[o].cache
              /\ \A v \in Users \ {u} :
                    /\ user_sessions'[v] = user_sessions[v]
                    /\ HistOf(v)' = HistOf(v)
                    /\ PrefsOf(v)' = PrefsOf(v)
                    /\ CacheOf(v)' = CacheOf(v)
              /\ req'[r].pc = "done" => HistOf(u)' = <<>>]_vars

\* a clear after a fetch of the same user, while another user has a history
C10_Witness ==
    \E r \in Requests :
        /\ req[r].op = "clear"
        /\ req[r].pc = "done"
        /\ r = Len(req)
        /\ HistOf(req[r].user) = <<>>
        /\ CacheOf(req[r].user) # EmptyCache
        /\ \E v \in Users \ {req[r].user} : HistOf(v) # <<>>

(***************************************************************************)
(* C11. In both variants the first operation that references a user        *)
(* creates the session of the user with the default preferences and an     *)
(* empty history, and a session, once created, is never removed or         *)
(* replaced by a fresh one; in particular the turns of a handleUserMessage *)
(* for a user not known before are recorded.                               *)
(***************************************************************************)
HasDefaults(preferences) ==
    /\ DOMAIN preferences =
          {"favorite_topics", "favorite_publications", "update_frequency", "region"}
    /\ preferences["favorite_topics"] = <<>>
    /\ preferences["favorite_publications"] = <<>>
    /\ preferences["update_frequency"] = "daily"
    /\ preferences["region"] = s_global

SimpleStepOf(u) == simple_ops' # simple_ops /\ simple_out'.user = u

C11_LazySession ==
    [][\A u \in Users :
          \* python variant: get_user_session
          /\ user_sessions[u] # 0 => user_sessions'[u] = user_sessions[u]
          /\ (user_sessions[u] = 0 /\ user_sessions'[u] # 0) =>
                /\ HasDefaults(PrefsOf(u)')
                /\ HistOf(u)' = <<>>
          \* simple variant
          /\ u \in DOMAIN simple_sessions => u \in DOMAIN simple_sessions'
          /\ SimpleStepOf(u) =>
                /\ u \in DOMAIN simple_sessions'
                /\ (u \notin DOMAIN simple_sessions
                    /\ simple_out'.op \in {"request", "history", "clear"}) =>
                       HasDefaults(SimplePrefs(u)')
                /\ simple_out'.op = "request" =>
                      /\ Len(SimpleHist(u)') = Len(SimpleHist(u)) + 2
                      /\ SimpleHist(u)'[Len(SimpleHist(u)') - 1].role = "user"
                      /\ SimpleHist(u)'[Len(SimpleHist(u)')].role = "assistant"]_vars

(***************************************************************************)
(* C12. Classification is total and single-valued: for every text, the     *)
(* empty text included, detect_intent returns one of the five intent       *)
(* types, and it returns the discussion type exactly when the lower-cased  *)
(* text contains no headline phrase, no publication name, no topic or      *)
(* event keyword and no preference keyword.                                *)
(***************************************************************************)
IntentTypes ==
    {"fetch_headlines", "fetch_specific_publication", "fetch_topic",
     "update_preferences", "discussion"}

Classified == {r \in Requests : req[r].op = "detect_intent"}

Has(r, list) == \E i \in 1..Len(list) : Contains(Lower(req[r].text), list[i])

topic_keywords == topics \o specific_keywords

C12_TotalClassification ==
    \A r \in Classified :
        /\ req[r].intent.type \in IntentTypes
        /\ req[r].intent.type = "discussion" <=>
              /\ ~Has(r, headline_phrases)
              /\ ~Has(r, publications)
              /\ ~Has(r, topic_keywords)
              /\ ~Has(r, preference_words)

\* the empty text is classified as discussion
C12_Witness ==
    \E r \in Classified : req[r].text = <<>> /\ req[r].intent.type = "discussion"

(***************************************************************************)
(* C13. A text that contains a headline phrase in any letter case is       *)
(* classified fetch_headlines, whatever else it contains.                  *)
(***************************************************************************)
C13_HeadlinesFirst ==
    \A r \in Classified :
        Has(r, headline_phrases) => req[r].intent.type = "fetch_headlines"

\* 'Top News' after a publication name and a preference keyword
C13_Witness ==
    \E r \in Classified :
        /\ Contains(req[r].text, w_Top_News)
        /\ Has(r, publications)
        /\ Has(r, preference_words)
        /\ req[r].intent.type = "fetch_headlines"

(***************************************************************************)
(* C14. A text without a headline phrase that contains a publication name  *)
(* and a topic keyword is classified fetch_specific_publication, with the  *)
(* first publication of the list (in list order) that occurs in the        *)
(* lower-cased text.                                                       *)
(***************************************************************************)
IsFirstOf(list, r, name) ==
    \E i \in 1..Len(list) :
        /\ name = list[i]
        /\ Contains(Lower(req[r].text), list[i])
        /\ \A j \in 1..(i - 1) : ~Contains(Lower(req[r].text), list[j])

C14_PublicationBeforeTopic ==
    \A r \in Classified :
        (~Has(r, headline_phrases) /\ Has(r, publications) /\ Has(r, topic_keywords)) =>
            /\ req[r].intent.type = "fetch_specific_publication"
            /\ IsFirstOf(publications, r, req[r].intent.name)

\* 'BBC' stands before 'cnn' in the text, 'cnn' before 'bbc' in the list
C14_Witness ==
    \E r \in Classified :
        /\ req[r].text = w_BBC \o <<" ">> \o s_cnn \o <<" ">> \o s_sports
        /\ req[r].intent = Intent("fetch_specific_publication", s_cnn)

(***************************************************************************)
(* C15. A text with no headline phrase and no publication name that        *)
(* contains several topic keywords is classified fetch_topic with the      *)
(* keyword that comes first in the list order, the generic categories      *)
(* before the event keywords, wherever the keywords stand in the text.     *)
(***************************************************************************)
KeywordsIn(r) ==
    {i \in 1..Len(topic_keywords) : Contains(Lower(req[r].text), topic_keywords[i])}

C15_TopicListOrder ==
    \A r \in Classified :
        (/\ ~Has(r, headline_phrases)
         /\ ~Has(r, publications)
         /\ Cardinality(KeywordsIn(r)) >= 2) =>
            /\ req[r].intent.type = "fetch_topic"
            /\ IsFirstOf(topic_keywords, r, req[r].intent.name)

\* event keyword first in the text, then two categories in reverse list order
C15_Witness ==
    \E r \in Classified :
        /\ req[r].text = s_covid \o <<" ">> \o s_sports \o <<" ">> \o s_politics
        /\ req[r].intent = Intent("fetch_topic", s_politics)

(***************************************************************************)
(* C16. A handleUserMessage whose text is classified update_preferences    *)
(* calls no aggregator and no provider and leaves every cache unchanged;   *)
(* the preferences of the session after the call equal those before it,    *)
(* and the user turn and a confirmation turn are appended.                 *)
(***************************************************************************)
IsPreferencesMessage(r) ==
    /\ req[r].op = "request"
    /\ detect_intent(req[r].text).type = "update_preferences"

C16_PreferencesIntentFrame ==
    /\ [](\A r \in Requests :
            IsPreferencesMessage(r) =>
               /\ req[r].inv = <<>>
               /\ req[r].kind = "none"
               /\ req[r].pc = "done" =>
                     req[r].appended =
                        <<Turn("user", UserContent(req[r].text), r),
                          Turn("assistant",
                               Reply("Your news preferences have been updated.",
                                     <<>>, <<>>), r)>>)
    /\ [][\A r \in Requests :
             (IsPreferencesMessage(r) /\ req'[r].pc # req[r].pc) =>
                /\ PrefsOf(req[r].user)' = PrefsOf(req[r].user)
                /\ \A o \in 1..Len(agents) :
                      /\ agents'[o].cache = agents[o].cache
                      /\ agents'[o].user_preferences = agents[o].user_preferences]_vars

\* the message arrives after the region was set to 'uk'
C16_Witness ==
    \E r \in Requests :
        /\ IsPreferencesMessage(r)
        /\ req[r].pc = "done"
        /\ Len(req[r].appended) = 2
        /\ PrefsOf(req[r].user)["region"] = s_uk

(***************************************************************************)
(* C17. In headlines and byTopic the providers are used in fixed priority  *)
(* with no fallback on failure: with the primary key configured only the   *)
(* primary provider is called, also when it fails (the error is the        *)
(* result); with only the secondary key only the secondary is called; with *)
(* neither no provider is called and the result is the empty sequence.     *)
(***************************************************************************)
Missed(r) ==
    /\ req[r].kind \in {"headlines", "topics"}
    /\ AggDone(r)
    /\ ~req[r].hit

C17_FixedPriority ==
    \A r \in Requests :
        /\ req[r].kind \in {"headlines", "topics"} => Len(req[r].inv) <= 1
        /\ Missed(r) =>
              /\ keys.news =>
                    /\ req[r].inv = <<"newsapi">>
                    /\ req[r].answer = Error => req[r].result = Error
              /\ (~keys.news /\ keys.nyt) =>
                    /\ req[r].inv = <<"nyt">>
                    /\ req[r].answer = Error => req[r].result = Error
              /\ (~keys.news /\ ~keys.nyt) =>
                    /\ req[r].inv = <<>>
                    /\ req[r].result = Ok(<<>>)

\* both keys are configured and the primary provider failed
C17_Witness ==
    \E r \in Requests :
        /\ Missed(r)
        /\ keys.news /\ keys.nyt
        /\ req[r].answer = Error
        /\ req[r].inv = <<"newsapi">>
        /\ req[r].result = Error

(***************************************************************************)
(* C18. In both variants, when the chosen provider fails, the headlines,   *)
(* byPublication and byTopic entry points report a failure to their        *)
(* caller; they never answer with a successful result made of placeholder  *)
(* articles.                                                               *)
(***************************************************************************)
C18_FailureReported ==
    /\ \A r \in Requests : req[r].answer = Error => req[r].result = Error
    /\ (/\ simple_out.op \in {"headlines", "topic", "publication"}
        /\ simple_out.arg.provider = "failed") =>
           /\ simple_out.status # 200
           /\ simple_out.body = <<>>

(***************************************************************************)
(* C19. For a discussion intent the messages handed to the chat completion *)
(* (the system prompt aside) are the conversation history of the session   *)
(* as it was before the request, in order, followed by the new user turn   *)
(* exactly once.                                                           *)
(***************************************************************************)
RECURSIVE WithoutSystem(_)
WithoutSystem(messages) ==
    IF messages = <<>> THEN <<>>
    ELSE IF Head(messages).role = "system" THEN WithoutSystem(Tail(messages))
         ELSE <<Head(messages)>> \o WithoutSystem(Tail(messages))

\* the turns of the session of r appended by the requests before r
RECURSIVE TurnsBefore(_, _)
TurnsBefore(h, r) ==
    IF h = <<>> THEN <<>>
    ELSE IF Head(h).by < r THEN <<Head(h)>> \o TurnsBefore(Tail(h), r)
         ELSE TurnsBefore(Tail(h), r)

C19_HistoryThenTurnOnce ==
    \A r \in Requests :
        req[r].messages # <<>> =>
            WithoutSystem(req[r].messages) =
                FormatMessages(TurnsBefore(agents[req[r].session].conversation_history, r))
                    \o <<[role |-> "user", content |-> UserContent(req[r].text)]>>

(***************************************************************************)
(* C20. On a successful fetch the composed reply lists at most 5 titles,   *)
(* each the title of an article of the result that has a title, in the     *)
(* order of the result, after the fixed template sentence; an article      *)
(* without a title contributes no line.                                    *)
(***************************************************************************)
ListTemplates ==
    {"Here are today's top headlines:",
     "Here are the latest articles from {0}:",
     "Here are the latest articles about {0}:"}

Composed(r) ==
    /\ req[r].op = "request"
    /\ req[r].result.status = "ok"
    /\ req[r].pc \in {"append", "done"}

\* lines is taken from the titles of data, in their order
InOrderOf(lines, data) ==
    \E pos \in [1..Len(lines) -> 1..Len(data)] :
        /\ \A i \in 1..Len(lines) : data[pos[i]].title = lines[i]
        /\ \A i \in 1..(Len(lines) - 1) : pos[i] < pos[i + 1]

C20_AtMostFiveTitles ==
    \A r \in Requests :
        Composed(r) =>
            LET lines == req[r].reply.lines IN
            /\ Len(lines) <= 5
            /\ \A i \in 1..Len(lines) : lines[i] # None
            /\ Len(lines) <= 5 => InOrderOf(lines, req[r].result.data)
            /\ lines # <<>> => req[r].reply.tmpl \in ListTemplates

\* seven articles, the second without a title: four titles are listed
C20_Witness ==
    \E r \in Requests :
        /\ Composed(r)
        /\ Len(req[r].result.data) = 7
        /\ req[r].reply.lines = <<"T1", "T3", "T4", "T5">>

C22_SharedCache ==
    \A r \in Requests : \A q \in Requests :
        (/\ r < q
         /\ AggDone(r) /\ AggDone(q)
         /\ req[r].kind = req[q].kind /\ req[r].key = req[q].key
         /\ req[r].answer.status = "ok"
         /\ req[q].now - req[r].now < cache_duration)
        => (req[q].hit /\ req[q].inv = <<>>)

(***************************************************************************)
(* C27. Neither the cache nor the aggregator retries: every single call of *)
(* headlines, byPublication or byTopic performs at most one provider       *)
(* invocation, whether that invocation succeeds or fails.                  *)
(***************************************************************************)
C27_NoRetry ==
    \A r \in Requests :
        /\ Len(req[r].inv) <= 1
        /\ AggDone(r) =>
              req[r].inv = IF req[r].answer = NoResult THEN <<>>
                           ELSE <<req[r].provider>>
        /\ (req[r].pc = "agg_fetch") => req[r].inv = <<>>

\* a publication call and a headline or topic call, one failed, one answered
C27_Witness ==
    \E r \in Requests : \E q \in Requests :
        /\ AggDone(r) /\ AggDone(q)
        /\ req[r].kind = "publications" /\ req[q].kind # "publications"
        /\ req[r].answer = Error /\ Len(req[r].inv) = 1
        /\ req[q].answer.status = "ok" /\ Len(req[q].inv) = 1

(***************************************************************************)
(* C25. For a FetchHeadlines intent (and for the headlines of initialize)  *)
(* the aggregator is called with the country taken from the session's      *)
(* region preference as it is at dispatch time: region "global" is mapped  *)
(* to the fixed default "us" and any other region value is passed through  *)
(* unchanged. The country is the part of the cache key before the "-".     *)
(***************************************************************************)
AsksHeadlines(r) ==
    req[r].op = "initialize" \/ req[r].intent.type = "fetch_headlines"

C25_CountryFromRegion ==
    [][\A r \in Requests :
          (/\ req[r].pc = "agg_lookup"
           /\ req'[r].pc # "agg_lookup"
           /\ AsksHeadlines(r))
          => LET region == agents[req[r].session].user_preferences.region IN
             /\ req'[r].kind = "headlines"
             /\ region = s_global => req'[r].key = <<"u", "s", "-">>
             /\ region # s_global => req'[r].key = region \o <<"-">>]_vars

\* headlines asked for by initialize and by a message, once under region "uk"
\* and once under region "global"
C25_Witness ==
    \E r \in Requests : \E q \in Requests :
        /\ AggDone(r) /\ AggDone(q)
        /\ req[r].op = "initialize" /\ req[q].op = "request"
        /\ {req[r].key, req[q].key} = {<<"u", "k", "-">>, <<"u", "s", "-">>}

(***************************************************************************)
(* C26. A boundary request with a missing required field (initialize       *)
(* without userId, request without userId or without userInput,            *)
(* preferences update without preferences) is answered with a structured   *)
(* failure and changes nothing: no session is created, no turn is          *)
(* appended, no preference is changed and no provider is called.           *)
(***************************************************************************)
MissingField(r) ==
    \/ req[r].op = "initialize" /\ req[r].user = <<>>
    \/ req[r].op = "request" /\ (req[r].user = <<>> \/ req[r].text = <<>>)
    \/ req[r].op = "preferences" /\ req[r].preferences = <<>>

C26_RejectedChangesNothing ==
    [][\A r \in Requests :
          MissingField(r) =>
              /\ req'[r].pc \in {"gus_check", "done"}
              /\ req'[r].session = 0
              /\ req'[r].inv = <<>>
              /\ req'[r].appended = <<>>
              /\ (req'[r].pc # req[r].pc) =>
                    /\ req'[r].result.status = "400"
                    /\ req'[r].reply # NoReply
                    /\ user_sessions' = user_sessions
                    /\ agents' = agents]_vars

\* a message without userInput is rejected after the user's session was
\* created and changed by an earlier request
C26_Witness ==
    \E q \in Requests : \E r \in Requests :
        /\ q < r
        /\ req[q].pc = "done" /\ req[q].session # 0
        /\ PrefsOf(<<"a">>).region = s_uk
        /\ req[r].op = "request" /\ req[r].user = <<"a">> /\ req[r].text = <<>>
        /\ req[r].pc = "done" /\ req[r].result.status = "400"
        /\ HistOf(<<"a">>) = req[q].appended

(***************************************************************************)
(* C29. initializeSession(userId, preferences) never fails because of the  *)
(* news provider: it merges the given preferences into the session,        *)
(* returns a welcome text that contains the titles of up to 5 current      *)
(* headlines when the headline fetch succeeds and a plain welcome text     *)
(* when it fails, and appends exactly one assistant turn holding the       *)
(* returned text to the history.                                           *)
(***************************************************************************)
Initialized(r) ==
    req[r].op = "initialize" /\ req[r].user # <<>> /\ req[r].pc = "done"

\* the positions of the first five articles that have a title
TitledAmongFive(data) ==
    {i \in 1..Len(data) : i <= 5 /\ data[i].title # None}

C29_Initialize ==
    /\ [](\A r \in Requests :
            Initialized(r) =>
                LET reply == req[r].reply IN
                /\ req[r].result.status \in {"ok", "error"}
                /\ req[r].result.status = "error" =>
                      /\ reply.tmpl = "Welcome to your News Agent! I'm ready to help you find and discuss the latest news."
                      /\ reply.lines = <<>>
                /\ req[r].result.status = "ok" =>
                      /\ reply.tmpl = "Welcome to your News Agent! Here are today's top headlines:"
                      /\ Len(reply.lines) = Cardinality(TitledAmongFive(req[r].result.data))
                      /\ InOrderOf(reply.lines, req[r].result.data)
                /\ req[r].appended = <<Turn("assistant", reply, r)>>
                /\ r = Len(req) =>
                      LET h == HistOf(req[r].user) IN
                      /\ h # <<>>
                      /\ h[Len(h)] = Turn("assistant", reply, r)
                      /\ \A i \in 1..(Len(h) - 1) : h[i].by # r)
    /\ [][\A r \in Requests :
            (req[r].pc = "init_update" /\ req'[r].pc # "init_update") =>
                IsMerge(agents[req[r].session].user_preferences,
                        req[r].preferences,
                        agents'[req[r].session].user_preferences)]_vars

\* an initialize that changed the region of an existing session and listed
\* four of seven headlines, and one whose headline fetch failed
C29_Witness ==
    \E q \in Requests : \E r \in Requests :
        /\ q < r
        /\ Initialized(q) /\ Initialized(r)
        /\ req[q].answer = Error /\ req[q].reply.lines = <<>>
        /\ req[r].preferences = PartialRegion
        /\ PrefsOf(req[r].user).region = s_uk
        /\ PrefsOf(req[r].user).update_frequency = "daily"
        /\ req[r].reply.lines = <<"T1", "T3", "T4", "T5">>
        /\ Len(HistOf(req[r].user)) = 2

(***************************************************************************)
(* C28. Every handleUserMessage run eventually reaches Done and returns a  *)
(* reply string, for every intent and for every outcome (success, empty,   *)
(* failure) of the news provider or of the discussion collaborator; a      *)
(* discussion-generation failure yields the stock fallback sentence rather *)
(* than an error.                                                          *)
(***************************************************************************)
MessageReceived(r) == r <= Len(req) /\ req[r].op = "request"

Replied(r) ==
    /\ r <= Len(req)
    /\ req[r].pc = "done"
    /\ req[r].reply # NoReply
    /\ req[r].reply.tmpl # ""
    /\ req[r].appended # <<>>
    /\ req[r].appended[Len(req[r].appended)] = Turn("assistant", req[r].reply, r)

StockFallback ==
    Reply("I'd be happy to discuss this topic. Based on recent news, there have been several developments in this area. What specific aspect would you like to know more about?",
          <<>>, <<>>)

PathOf(name) ==
    IF Lower(name) \in {<<"n", "e", "w", " ", "y", "o", "r", "k", " ", "t", "i", "m", "e", "s">>,
                        <<"n", "y", "t">>}
    THEN "nyt"
    ELSE IF Lower(name) \in {<<"t", "h", "e", " ", "g", "u", "a", "r", "d", "i", "a", "n">>,
                             <<"g", "u", "a", "r", "d", "i", "a", "n">>}
    THEN "guardian"
    ELSE "newsapi"

KeyFor(path) ==
    CASE path = "nyt" -> keys.nyt
      [] path = "guardian" -> keys.guardian
      [] path = "newsapi" -> keys.news

C23_PublicationDispatch ==
    \A r \in Requests :
        req[r].op = "publication" =>
            LET path == PathOf(req[r].text) IN
            /\ \A i \in 1..Len(req[r].inv) : req[r].inv[i] = path
            /\ Len(req[r].inv) <= 1
            /\ req[r].pc = "agg_fetch" => (req[r].provider = path /\ KeyFor(path))
            /\ req[r].pc \in {"append", "done"} =>
                  IF KeyFor(path)
                  THEN req[r].inv = <<path>>
                  ELSE req[r].inv = <<>> /\ req[r].result = Ok(<<>>)

\* with every key configured, a call for "The Guardian" reached the Guardian
\* and a call for "NYT" reached the NYT
C23_Witness ==
    \E r \in Requests : \E q \in Requests :
        /\ keys.news /\ keys.nyt /\ keys.guardian
        /\ req[r].pc = "done" /\ req[q].pc = "done"
        /\ req[r].text = w_The_Guardian /\ req[r].inv = <<"guardian">>
        /\ req[q].text = w_NYT /\ req[q].inv = <<"nyt">>

(***************************************************************************)
(* C24. map_publication_to_news_api_source is case-insensitive on its      *)
(* argument: any casing of a name in the alias table yields that alias's   *)
(* canonical source id, and any name whose lower-cased form is not in the  *)
(* table yields exactly its lower-cased form.                              *)
(***************************************************************************)
MappedCalls == {r \in Requests : req[r].op = "map_publication"}

Aliases == {source_mapping[i][1] : i \in 1..Len(source_mapping)}

C24_CaseInsensitiveMapping ==
    \A r \in MappedCalls :
        /\ \A i \in 1..Len(source_mapping) :
              Lower(req[r].text) = source_mapping[i][1]
                  => req[r].key = source_mapping[i][2]
        /\ Lower(req[r].text) \notin Aliases => req[r].key = Lower(req[r].text)

\* "WsJ" yields the id of the Wall Street Journal
C24_Witness ==
    \E r \in MappedCalls :
        /\ req[r].text = <<"W", "s", "J">>
        /\ req[r].key = <<"t", "h", "e", "-", "w", "a", "l", "l", "-", "s", "t", "r", "e",
                          "e", "t", "-", "j", "o", "u", "r", "n", "a", "l">>

(***************************************************************************)
(* C30. For an article with a non-empty list of candidate images, the      *)
(* image URL extracted for the secondary provider is the URL of a          *)
(* candidate whose declared width is maximal among all candidates, and     *)
(* among candidates of equal maximal width the first in list order; this   *)
(* also holds when every candidate declares width 0 or declares no width.  *)
(***************************************************************************)
DeclaredWidth(image) == IF "width" \in DOMAIN image THEN image.width ELSE 0

\* the first position of maximal declared width
FirstWidest(m) ==
    CHOOSE i \in 1..Len(m) :
        /\ \A j \in 1..Len(m) : DeclaredWidth(m[j]) <= DeclaredWidth(m[i])
        /\ \A j \in 1..(i - 1) : DeclaredWidth(m[j]) < DeclaredWidth(m[i])

C30_WidestFirstImage ==
    \A r \in Requests :
        (req[r].op = "image_url" /\ req[r].text # <<>>) =>
            req[r].result.data = req[r].text[FirstWidest(req[r].text)].url

(***************************************************************************)
(* C31. On a successful fetch the fixed "nothing found" sentence is        *)
(* returned if and only if the fetched result contains no article with a   *)
(* title; whenever the result contains at least one titled article (at any *)
(* position, also after the fifth) the reply lists at least one title.     *)
(***************************************************************************)
NothingFound ==
    {"I'm sorry, I couldn't find any headlines at the moment. Please try again later.",
     "I'm sorry, I couldn't find any recent articles from {0}. Please try another publication or try again later.",
     "I'm sorry, I couldn't find any recent articles about {0}. Please try another topic or try again later."}

TitledIn(data) == {i \in 1..Len(data) : data[i].title # None}

C31_NothingFoundIffNoTitle ==
    \A r \in Requests :
        Composed(r) =>
            /\ req[r].reply.tmpl \in NothingFound <=> TitledIn(req[r].result.data) = {}
            /\ TitledIn(req[r].result.data) # {} => Len(req[r].reply.lines) >= 1

\* C31 as amended: only the first five articles of the result count. The
\* "nothing found" sentence is returned if and only if none of the first five
\* articles has a title, also when a later article has one; otherwise the
\* reply lists at least one title.
C31_NothingFoundIffNoTitleInFive ==
    \A r \in Requests :
        Composed(r) =>
            /\ req[r].reply.tmpl \in NothingFound
                  <=> TitledAmongFive(req[r].result.data) = {}
            /\ req[r].reply.tmpl \in NothingFound => req[r].reply.lines = <<>>
            /\ TitledAmongFive(req[r].result.data) # {} =>
                  /\ req[r].reply.tmpl \in ListTemplates
                  /\ Len(req[r].reply.lines) >= 1

\* a headline result and a topic result whose only title is on the sixth
\* article: nothing found
C31_Witness ==
    \E q \in Requests : \E r \in Requests :
        /\ Composed(q) /\ Composed(r)
        /\ req[q].intent.type = "fetch_headlines"
        /\ req[r].intent.type = "fetch_topic"
        /\ req[q].result.data = LateTitle /\ req[r].result.data = LateTitle
        /\ req[q].reply.tmpl \in NothingFound /\ req[r].reply.tmpl \in NothingFound

(***************************************************************************)
(* C32. The insertedAt recorded for a cache entry is the instant at which  *)
(* its fetch succeeded, not the instant at which the call started: an      *)
(* entry stored by a fetch that took d time units is still live for every  *)
(* call made less than ttl after the fetch completed.                      *)
(***************************************************************************)
FetchSucceeds(r) ==
    /\ req[r].pc = "agg_fetch"
    /\ req'[r].pc = "append"
    /\ req'[r].answer.status = "ok"

C32_InsertedAtCompletion ==
    [][\A r \in Requests :
          FetchSucceeds(r) =>
              LET c == agents'[req[r].session].cache[req[r].kind] IN
              /\ req[r].key \in DOMAIN c
              /\ c[req[r].key].timestamp = clock
              /\ IsLive(c, req[r].key, clock + cache_duration - 1)]_vars

(***************************************************************************)
(* C36. An empty result that is returned only because no usable provider   *)
(* credential is configured never creates or replaces a cache entry, in    *)
(* any of the three entry points headlines, byPublication and byTopic.     *)
(***************************************************************************)
\* the call returns without a provider invocation and not from the cache
ReturnsUnfetched(r) ==
    /\ req[r].pc = "agg_lookup"
    /\ req'[r].pc = "append"
    /\ ~req'[r].hit
    /\ req'[r].inv = <<>>

C36_NoCredentialNoEntry ==
    [][\A r \in Requests :
          ReturnsUnfetched(r) =>
              /\ req'[r].result = Ok(<<>>)
              /\ agents'[req[r].session].cache = agents[req[r].session].cache]_vars

(***************************************************************************)
(* C37. If clearHistory(userId) executes while a handleUserMessage of the  *)
(* same user is between appending its user turn and appending its         *)
(* assistant turn, the final history holds either both turns of that       *)
(* request or neither; it never holds the assistant reply without the user *)
(* turn it answers.                                                        *)
(***************************************************************************)
HoldsTurn(h, role, r) == \E i \in 1..Len(h) : h[i].role = role /\ h[i].by = r

C37_BothTurnsOrNeither ==
    \A r \in Requests :
        (req[r].op = "request" /\ req[r].pc = "done") =>
            LET h == agents[req[r].session].conversation_history IN
            HoldsTurn(h, "assistant", r) => HoldsTurn(h, "user", r)

(***************************************************************************)
(* C38. Sessions are isolated: any sequence of initializeSession,          *)
(* handleUserMessage, clearHistory and updatePreferences operations for    *)
(* user A leaves the history and the preferences of every other user B     *)
(* unchanged, and what getHistory(B) returns does not depend on A's        *)
(* operations: it holds turns appended by B's own requests only.           *)
(***************************************************************************)
StepOf(r) == req'[r] # req[r] \/ agents' # agents \/ user_sessions' # user_sessions

C38_SessionsIsolated ==
    /\ [][\A r \in Requests : \A u \in Users :
            (Running(r) /\ req[r].user # u /\ StepOf(r)) =>
                /\ HistOf(u)' = HistOf(u)
                /\ PrefsOf(u)' = PrefsOf(u)]_vars
    /\ [](\A r \in Requests :
            (req[r].op = "history" /\ req[r].pc = "done") =>
                /\ req[r].result.status = "ok"
                /\ \A i \in 1..Len(req[r].result.data) :
                      req[req[r].result.data[i].by].user = req[r].user)

\* B has a history and changed preferences, A has initialized, asked and
\* cleared in between, and B reads its history
C38_Witness ==
    \E p \in Requests : \E q \in Requests : \E r \in Requests :
        /\ p < q /\ q < r
        /\ req[p].user = <<"b">> /\ req[p].op = "initialize"
        /\ req[q].user = <<"a">> /\ req[q].op \in {"initialize", "request", "clear"}
        /\ req[r].user = <<"b">> /\ req[r].op = "history" /\ req[r].pc = "done"
        /\ req[r].result.data = req[p].appended
        /\ PrefsOf(<<"b">>).region = s_uk
        /\ user_sessions[<<"a">>] # 0
        /\ PrefsOf(<<"a">>) # PrefsOf(<<"b">>)

(***************************************************************************)
(* C33. Cache keys are built from lower-cased parameters in all three      *)
(* entry points: two requests of the same kind whose parameters differ     *)
(* only in letter case (e.g. headlines("US","Business") and                *)
(* headlines("us","business"), byTopic("AI") and byTopic("ai")) use the    *)
(* same cache entry, so the second one within the ttl causes no provider   *)
(* call.                                                                   *)
(***************************************************************************)
CategoryOf(r) ==
    IF req[r].op = "get_top_headlines" THEN req[r].preferences.category ELSE <<>>

\* p and q are calls of the same method, p fetched successfully before q
FetchedBefore(p, q) ==
    /\ p < q
    /\ req[p].op \in ApiCalls /\ req[p].op = req[q].op
    /\ AggDone(p) /\ AggDone(q)
    /\ req[p].answer.status = "ok"

SameUpToCase(p, q) ==
    /\ Lower(req[p].text) = Lower(req[q].text)
    /\ Lower(CategoryOf(p)) = Lower(CategoryOf(q))

SameAsGiven(p, q) ==
    req[p].text = req[q].text /\ CategoryOf(p) = CategoryOf(q)

C33_KeysLowerCased ==
    \A p \in Requests : \A q \in Requests :
        (FetchedBefore(p, q) /\ SameUpToCase(p, q)) =>
            /\ req[p].key = req[q].key
            /\ req[q].hit /\ req[q].inv = <<>>

\* C33 as amended: only byPublication and byTopic lower-case their
\* parameter; the headlines key is country + "-" + category as given. Two
\* byPublication or byTopic calls that differ only in letter case use the same
\* entry, two headlines calls use the same entry only if their parameters are
\* identical: after headlines("US","Business"), headlines("us","business")
\* finds no entry and calls the provider.
C33_KeysLowerCasedExceptHeadlines ==
    \A q \in Requests :
        (req[q].op \in ApiCalls /\ AggDone(q)) =>
            /\ req[q].op = "get_top_headlines" =>
                  /\ req[q].key = req[q].text \o <<"-">> \o CategoryOf(q)
                  /\ req[q].hit <=>
                        \E p \in Requests : FetchedBefore(p, q) /\ SameAsGiven(p, q)
            /\ req[q].op # "get_top_headlines" =>
                  /\ req[q].key = Lower(req[q].text)
                  /\ req[q].hit <=>
                        \E p \in Requests : FetchedBefore(p, q) /\ SameUpToCase(p, q)
            /\ req[q].hit => req[q].inv = <<>>

\* headlines("US","Business") fetched, then headlines("us","business") misses
\* and calls the provider
C33_Witness ==
    \E p \in Requests : \E q \in Requests :
        /\ FetchedBefore(p, q)
        /\ req[p].text = w_US /\ CategoryOf(p) = w_Business
        /\ req[q].text = s_us /\ CategoryOf(q) = s_business
        /\ ~req[q].hit /\ req[q].inv = <<"newsapi">>

(***************************************************************************)
(* C34. Every article sequence returned by byTopic(topic, language) was    *)
(* fetched from the provider with that same language: after byTopic(t,     *)
(* "en") has been cached, a call byTopic(t, "fr") within the ttl does not  *)
(* return the payload fetched for "en".                                    *)
(***************************************************************************)
\* p is the fetch whose entry the call q found under its key
StoredFor(p, q) ==
    /\ p < q
    /\ req[p].op = "get_news_by_topic"
    /\ req[p].answer.status = "ok"
    /\ req[p].key = req[q].key
    /\ req[p].now = req[q].seen.timestamp
    /\ req[p].result.data = req[q].seen.data

C34_SameLanguage ==
    \A q \in Requests :
        (req[q].op = "get_news_by_topic" /\ AggDone(q) /\ req[q].hit) =>
            \A p \in Requests :
                StoredFor(p, q) => req[p].preferences.language = req[q].preferences.language

(***************************************************************************)
(* C35. For every cache key the insertedAt of its entry never decreases    *)
(* over time, under any interleaving of concurrent refreshes of that key:  *)
(* a refresh that started earlier never overwrites the entry stored by a   *)
(* refresh that started later.                                             *)
(***************************************************************************)
CacheKinds == {"headlines", "topics", "publications"}

C35_InsertedAtMonotone ==
    [][\A o \in 1..Len(agents) : \A kind \in CacheKinds :
          \A k \in DOMAIN agents[o].cache[kind] :
              /\ k \in DOMAIN agents'[o].cache[kind]
              /\ agents'[o].cache[kind][k].timestamp
                    >= agents[o].cache[kind][k].timestamp]_vars

====
